---- MODULE Spec2Model ----
(***************************************************************************)
(* Model of the plugin execution and tool-call orchestration engine of     *)
(* backend/server.py, backend/plugin_manager.py and                        *)
(* backend/code_executor.py.                                               *)
(*                                                                         *)
(* Texts are sequences of tokens.  A token is a start marker, an end       *)
(* marker, a key/value pair (key:<open>value<close>), a fenced python code *)
(* block or a stretch of other text.  A value is a sequence of words, the  *)
(* word " " standing for whitespace, so that strip() has something to do.  *)
(***************************************************************************)
EXTENDS Integers, Sequences, FiniteSets, TLC

\* ------------------------------------------------------------------------
\* Bounds of the model
\* ------------------------------------------------------------------------
MaxTextLen == 5      \* longest text given to the parsers (SpecParse)
MaxScriptLen == 3    \* longest sandbox script, in statements (SpecSandbox)
MaxClock == 6        \* wall-clock ticks observed in SpecSandbox
MaxOther == 2        \* other event-loop callbacks waiting in SpecSandbox
MaxFolders == 3      \* most folders in the plugin directory (SpecLoad)
MaxRequests == 2     \* most requests put into one markup text (SpecRound)
MaxCalls == 3        \* most tool calls in one reply of the model (SpecToolRound)
MaxPrompt == 2       \* most placeholder tokens in one expanded text (SpecExpand)

\* ------------------------------------------------------------------------
\* Tokens and texts
\* ------------------------------------------------------------------------
Tok(t, k, v) == [t |-> t, k |-> k, v |-> v]
START == Tok("start", "", <<>>)
END == Tok("end", "", <<>>)
TXT == Tok("txt", "", <<>>)
Pair(k, v) == Tok("pair", k, v)
Code(s) == Tok("code", "", <<s>>)

\* str.strip() on a value: drop leading and trailing whitespace words
RECURSIVE LStrip(_)
LStrip(v) == IF v # <<>> /\ Head(v) = " " THEN LStrip(Tail(v)) ELSE v

RECURSIVE RStrip(_)
RStrip(v) ==
  IF v # <<>> /\ v[Len(v)] = " " THEN RStrip(SubSeq(v, 1, Len(v) - 1)) ELSE v

Strip(v) == RStrip(LStrip(v))

\* str.find(marker, offset) on tokens: 1-based index, 0 for "not found"
Find(content, t, offset) ==
  LET hits == {i \in offset..Len(content) : content[i].t = t}
  IN IF hits = {} THEN 0 ELSE CHOOSE i \in hits : \A j \in hits : i <= j

\* re.finditer(param_pattern, request_block): the pairs, in order
IsPair(x) == x.t = "pair"
ParamMatches(block) == SelectSeq(block, IsPair)

EmptyDict == <<>>

\* the loop over the matches: tool_name is <<>> for None, <<v>> for a string
RECURSIVE ParamLoop(_, _)
ParamLoop(matches, acc) ==
  IF matches = <<>> THEN acc
  ELSE LET key == Head(matches).k
           value == Strip(Head(matches).v)
       IN ParamLoop(Tail(matches),
            IF key = "tool_name"
            THEN [acc EXCEPT !.tool_name = <<value>>]
            ELSE [acc EXCEPT !.params = (key :> value) @@ acc.params])

\* the loop started from a default tool name in place of None
ParseBlock_DefaultName(block) ==
  ParamLoop(ParamMatches(block), [tool_name |-> <<<<"unknown">>>>, params |-> EmptyDict])

\* "params = {}; tool_name = None" and the loop over the matches of a block
ParseBlock(block) ==
  ParamLoop(ParamMatches(block), [tool_name |-> <<>>, params |-> EmptyDict])

\* "if tool_name:" - neither None nor the empty string
Truthy(tool_name) == tool_name # <<>> /\ tool_name[1] # <<>>

Request(parsed) == [tool_name |-> parsed.tool_name[1], args |-> parsed.params]

\* parse_vcp_request: <<>> for None, <<request>> otherwise
parse_vcp_request(content) ==
  LET start_idx == Find(content, "start", 1)
      end_idx == IF start_idx = 0 THEN 0 ELSE Find(content, "end", start_idx)
      parsed == ParseBlock(SubSeq(content, start_idx + 1, end_idx - 1))
  IN IF start_idx = 0 \/ end_idx = 0 THEN <<>>
     ELSE IF Truthy(parsed.tool_name) THEN <<Request(parsed)>>
     ELSE <<>>

RECURSIVE ParseFrom(_, _, _)
ParseFrom(content, search_offset, requests) ==
  LET start_idx == Find(content, "start", search_offset)
      end_idx == IF start_idx = 0 THEN 0 ELSE Find(content, "end", start_idx)
      parsed == ParseBlock(SubSeq(content, start_idx + 1, end_idx - 1))
  IN IF start_idx = 0 \/ end_idx = 0 THEN requests
     ELSE ParseFrom(content, end_idx + 1,
            IF Truthy(parsed.tool_name)
            THEN Append(requests, Request(parsed))
            ELSE requests)

parse_multiple_vcp_requests(content) == ParseFrom(content, 1, <<>>)

\* the request blocks of a text as the two find() calls delimit them: from a
\* start marker to the first end marker after it, the search going on
\* behind that end marker
RECURSIVE RequestBlocks(_, _)
RequestBlocks(content, search_offset) ==
  LET start_idx == Find(content, "start", search_offset)
      end_idx == IF start_idx = 0 THEN 0 ELSE Find(content, "end", start_idx)
  IN IF start_idx = 0 \/ end_idx = 0 THEN <<>>
     ELSE <<SubSeq(content, start_idx + 1, end_idx - 1)>>
            \o RequestBlocks(content, end_idx + 1)

\* the block holds a pair whose key is tool_name
HasToolName(block) ==
  \E i \in 1..Len(block) : block[i].t = "pair" /\ block[i].k = "tool_name"

\* extract_code_blocks: the bodies of the python fences, in order
IsCode(x) == x.t = "code"
RECURSIVE Bodies(_)
Bodies(toks) == IF toks = <<>> THEN <<>> ELSE <<Head(toks).v[1]>> \o Bodies(Tail(toks))
extract_code_blocks(content) == Bodies(SelectSeq(content, IsCode))

has_code_blocks(content) == extract_code_blocks(content) # <<>>

\* ------------------------------------------------------------------------
\* Code-execution sandbox: scripts and CodeExecutor.execute_code
\* ------------------------------------------------------------------------
\* A script is a sequence of one-line statements:
\*   "print"  print(1+1)                  an expression, writes "2\n"
\*   "expr"   2 + 2                       an expression without output
\*   "assign" x = 1                       a statement, not an expression
\*   "for"    for i in range(1): print(3) a statement, writes "3\n"
\*   "div0"   1/0                         an expression that raises
\*   "loop"   while True: pass            never finishes
StmtKinds == {"print", "expr", "assign", "for", "div0", "loop"}

Writes(stmt) ==
  CASE stmt = "print" -> <<"2\n">>
    [] stmt = "for" -> <<"3\n">>
    [] OTHER -> <<>>

IsExpression(stmt) == stmt \in {"print", "expr", "div0"}

\* last_line.startswith(('def', 'class', 'if', 'for', 'while', ...))
StartsWithKeyword(stmt) == stmt \in {"for", "loop"}

\* index of the first statement exec() does not get past, 0 if none
FirstStop(code) ==
  LET stops == {i \in 1..Len(code) : code[i] \in {"div0", "loop"}}
  IN IF stops = {} THEN 0 ELSE CHOOSE i \in stops : \A j \in stops : i <= j

ExecRaises(code) == FirstStop(code) # 0 /\ code[FirstStop(code)] = "div0"
Hangs(code) == FirstStop(code) # 0 /\ code[FirstStop(code)] = "loop"

Upto(n) == [i \in 1..n |-> i]

\* the statements exec(code) evaluates, by index, in order
ExecEvaluations(code) ==
  IF FirstStop(code) = 0 THEN Upto(Len(code)) ELSE Upto(FirstStop(code))

\* eval(last_line) after a successful exec: evaluates the last line again
\* when it is an expression (a statement is a SyntaxError, result = None)
EvalLastLine(code) ==
  IF /\ code # <<>>
     /\ ~StartsWithKeyword(code[Len(code)])
     /\ IsExpression(code[Len(code)])
  THEN <<Len(code)>> ELSE <<>>

\* eval(code) after exec raised: evaluates a one-expression script again
EvalWholeCode(code) ==
  IF Len(code) = 1 /\ IsExpression(code[1]) THEN <<1>> ELSE <<>>

\* every evaluation of a statement that execute_code performs, in order
Evaluations(code) ==
  ExecEvaluations(code) \o
    (IF Hangs(code) THEN <<>>
     ELSE IF ExecRaises(code) THEN EvalWholeCode(code)
     ELSE EvalLastLine(code))

RECURSIVE Captured(_, _)
Captured(code, evals) ==
  IF evals = <<>> THEN <<>>
  ELSE Writes(code[Head(evals)]) \o Captured(code, Tail(evals))

\* the dict execute_code returns for a script that does not hang
execute_code(code) ==
  IF ExecRaises(code)
  THEN [success |-> FALSE, output |-> <<>>,
        error |-> IF EvalWholeCode(code) # <<>>
                  THEN "CodeExecutionError: Execution failed: division by zero"
                  ELSE "CodeExecutionError: Execution failed: invalid syntax"]
  ELSE [success |-> TRUE, output |-> Captured(code, Evaluations(code)),
        error |-> ""]

\* what one execution of the script writes to stdout
OneRun(code) == Captured(code, Upto(Len(code)))

\* the built-ins table with open() left in it
SafeBuiltins_WithOpen ==
  {"print", "len", "range", "str", "int", "float", "bool", "list", "dict",
   "tuple", "set", "min", "max", "sum", "abs", "round", "enumerate", "zip",
   "sorted", "map", "filter", "any", "all", "isinstance", "type", "help",
   "dir", "open"}

\* _create_safe_globals: the names bound in the namespace of the scripts
SafeBuiltins ==
  {"print", "len", "range", "str", "int", "float", "bool", "list", "dict",
   "tuple", "set", "min", "max", "sum", "abs", "round", "enumerate", "zip",
   "sorted", "map", "filter", "any", "all", "isinstance", "type", "help",
   "dir"}

ModuleBindings ==
  {"asyncio", "json", "re", "os", "pathlib", "datetime", "tools",
   "call_mcp_tool", "list_available_tools", "search_tools"}

ToolDirs == {"scicalculator", "urlfetch"}

create_safe_globals(tool_dirs) ==
  [builtins |-> SafeBuiltins, names |-> ModuleBindings \cup tool_dirs]

\* the operating-system primitives an object bound to a name hands out
Grants(name) ==
  CASE name = "os" -> {"filesystem", "process"}
    [] name = "pathlib" -> {"filesystem"}
    [] name = "asyncio" -> {"process", "network"}
    [] name = "open" -> {"filesystem"}
    [] name = "__import__" -> {"filesystem", "process", "network"}
    [] OTHER -> {}

\* ------------------------------------------------------------------------
\* Plugin registry and PluginManager.process_tool_call
\* ------------------------------------------------------------------------
Manifest(type, protocol) == [pluginType |-> type, protocol |-> protocol]

\* the manifests load_plugins has registered; <<"Ghost">> is in no manifest
Registry ==
  (<<"Echo">> :> Manifest("synchronous", "stdio")) @@
  (<<"Err">> :> Manifest("synchronous", "stdio")) @@
  (<<"Crash">> :> Manifest("synchronous", "stdio")) @@
  (<<"Slow">> :> Manifest("synchronous", "stdio")) @@
  (<<"Clock">> :> Manifest("static", "stdio"))

\* what the subprocess of a plugin does when it is spawned
ProcessRun(name) ==
  CASE name = <<"Echo">> ->
         [timed_out |-> FALSE, returncode |-> 0, stdout |-> "success_envelope"]
    [] name = <<"Err">> ->
         [timed_out |-> FALSE, returncode |-> 0, stdout |-> "error_envelope"]
    [] name = <<"Crash">> ->
         [timed_out |-> FALSE, returncode |-> 1, stdout |-> "plain"]
    [] OTHER ->
         [timed_out |-> TRUE, returncode |-> 0, stdout |-> ""]

Returned(v) == [raised |-> FALSE, val |-> v]
Raised(msg) == [raised |-> TRUE, val |-> msg]

\* what the standard output of a plugin process can hold, once stripped
StdoutKinds == {"success_envelope", "error_envelope", "other_status",
                "json_number", "json_list", "plain", ""}

\* json.loads(output): "object", "value" (JSON that is no object), or
\* "invalid" (json.JSONDecodeError: plain text and the empty string)
JsonLoads(output) ==
  CASE output \in {"success_envelope", "error_envelope", "other_status"} -> "object"
    [] output \in {"json_number", "json_list"} -> "value"
    [] OTHER -> "invalid"

\* parsed_output.get('status') of an object
StatusOf(output) ==
  CASE output = "success_envelope" -> "success"
    [] output = "error_envelope" -> "error"
    [] OTHER -> "other"

Outcome(raised, val, result) == [raised |-> raised, val |-> val, result |-> result]

\* execute_plugin after communicate() has returned, with the exit code
\* looked at before the envelope
InterpretOutput_ExitCodeFirst(output, returncode) ==
  IF returncode # 0 THEN Outcome(TRUE, "exited with code", "")
  ELSE IF JsonLoads(output) = "object" /\ StatusOf(output) \in {"success", "error"}
       THEN Outcome(FALSE, StatusOf(output), output)
  ELSE Outcome(FALSE, "success", output)

\* execute_plugin after communicate() has returned: the envelope first, then
\* the exit code, then the raw output.  .get on JSON that is no object raises
\* AttributeError, which "except Exception" turns into a RuntimeError.
InterpretOutput(output, returncode) ==
  IF JsonLoads(output) = "value"
  THEN Outcome(TRUE, "Failed to execute plugin", "")
  ELSE IF JsonLoads(output) = "object" /\ StatusOf(output) \in {"success", "error"}
       THEN Outcome(FALSE, StatusOf(output), output)
  ELSE IF returncode # 0 THEN Outcome(TRUE, "exited with code", "")
  ELSE Outcome(FALSE, "success", output)

\* _execute_static_plugin_command after communicate() has returned
InterpretStatic(output, returncode) ==
  IF returncode # 0 THEN Outcome(TRUE, "Plugin exited with code", "")
  ELSE Outcome(FALSE, "returned", output)

\* execute_plugin, for a registered synchronous plugin
execute_plugin(registry, plugin_name) ==
  LET run == ProcessRun(plugin_name)
      o == InterpretOutput(run.stdout, run.returncode)
  IN IF plugin_name \notin DOMAIN registry THEN Raised("not found")
     ELSE IF registry[plugin_name].pluginType # "synchronous"
          THEN Raised("is not a synchronous plugin")
     ELSE IF run.timed_out THEN Raised("execution timed out")
     ELSE IF o.raised THEN Raised(o.val)
     ELSE Returned(o.val)

\* process_tool_call: every failure leaves it as an exception.  The argument
\* checks of _prepare_execution_param concern SciCalculator and FluxGen only,
\* which are not among the plugins of Registry.
process_tool_call(registry, tool_name) ==
  IF tool_name \notin DOMAIN registry THEN Raised("not found for tool call")
  ELSE IF registry[tool_name].pluginType # "synchronous"
       THEN Raised("is not a synchronous plugin")
  ELSE IF registry[tool_name].protocol # "stdio"
       THEN Raised("does not use stdio protocol")
  ELSE LET plugin_output == execute_plugin(registry, tool_name)
       IN IF plugin_output.raised THEN plugin_output
          ELSE IF plugin_output.val = "success" THEN Returned("hi")
          ELSE Raised("plugin reported an error")

\* ------------------------------------------------------------------------
\* Strings of the conversation: sequences of pieces
\* ------------------------------------------------------------------------
Piece(kind, call, text, tool, val, outp) ==
  [kind |-> kind, call |-> call, text |-> text, tool |-> tool, val |-> val,
   out |-> outp]

\* the content of the model's reply to upstream call n
AiContent(n, text) == Piece("ai", n, text, <<>>, "", <<>>)
UserPrompt == Piece("user", 0, <<>>, <<>>, "", <<>>)
ToolResult(tool, val) == Piece("tool_result", 0, <<>>, tool, val, <<>>)
ToolError(tool, msg) == Piece("tool_error", 0, <<>>, tool, msg, <<>>)
VcpItem(tool, val) == Piece("vcp", 0, <<>>, tool, val, <<>>)
CodeResult(outp) == Piece("code_result", 0, <<>>, <<>>, "", outp)
CodeError(msg) == Piece("code_error", 0, <<>>, <<>>, msg, <<>>)

Message(role, content) == [role |-> role, content |-> content]
OriginalMessages == <<Message("user", <<UserPrompt>>)>>

\* the scripts the model writes into code fences
ScriptOf(name) ==
  CASE name = "ok" -> <<"assign", "for">>
    [] name = "bad" -> <<"assign", "div0">>
    [] OTHER -> <<"loop">>

\* execute_code_blocks hangs when one of the scripts it reaches never ends
RECURSIVE BlocksHang(_)
BlocksHang(code_blocks) ==
  /\ code_blocks # <<>>
  /\ \/ Hangs(ScriptOf(Head(code_blocks)))
     \/ BlocksHang(Tail(code_blocks))

RECURSIVE RunBlocks(_, _)
RunBlocks(code_blocks, acc) ==
  IF code_blocks = <<>> THEN acc
  ELSE LET result == execute_code(ScriptOf(Head(code_blocks)))
       IN RunBlocks(Tail(code_blocks),
            IF result.success
            THEN [acc EXCEPT !.outputs = Append(@, result.output)]
            ELSE [acc EXCEPT !.errors = Append(@, result.error)])

RECURSIVE Join(_)
Join(outputs) == IF outputs = <<>> THEN <<>> ELSE Head(outputs) \o Join(Tail(outputs))

execute_code_blocks(content) ==
  LET r == RunBlocks(extract_code_blocks(content), [outputs |-> <<>>, errors |-> <<>>])
  IN [success |-> r.errors = <<>>, outputs |-> r.outputs, errors |-> r.errors,
      combined_output |-> Join(r.outputs)]

\* the loop over vcp_requests of handle_non_streaming_response: one call of
\* process_tool_call after the other, results and history in that order
RECURSIVE RunTools(_, _, _, _)
RunTools(registry, requests, show, acc) ==
  IF requests = <<>> THEN acc
  ELSE LET tool_name == Head(requests).tool_name
           r == process_tool_call(registry, tool_name)
           entry == IF r.raised THEN ToolError(tool_name, r.val)
                    ELSE ToolResult(tool_name, r.val)
       IN RunTools(registry, Tail(requests), show,
            [tool_results |-> Append(acc.tool_results, entry),
             history |-> IF show
                         THEN Append(acc.history,
                                [type |-> "vcp", content |-> VcpItem(tool_name, r.val)])
                         ELSE acc.history,
             failures |-> IF r.raised THEN Append(acc.failures, entry)
                          ELSE acc.failures])

\* "for item in conversation_history" of the final response
RECURSIVE FinalOf(_, _)
FinalOf(history, show) ==
  IF history = <<>> THEN <<>>
  ELSE (IF Head(history).type = "ai" THEN <<Head(history).content>>
        ELSE IF Head(history).type = "vcp" /\ show THEN <<Head(history).content>>
        ELSE <<>>) \o FinalOf(Tail(history), show)

max_recursion == 5

\* the range with its end included
InRange_Inclusive(depth) == depth <= max_recursion

\* "for recursion_depth in range(max_recursion)": is there another pass
InRange(depth) == depth < max_recursion

\* ------------------------------------------------------------------------
\* State
\* ------------------------------------------------------------------------
VARIABLES
  p_text,       \* SpecParse: the text under detection
  p_pc,         \* SpecParse: "init", "stream", "scanned"
  p_stream,     \* SpecParse: needs_second_ai_call of generate_stream
  p_buffered,   \* SpecParse: vcp_requests of handle_non_streaming_response
  execution_globals, \* CodeExecutor.execution_globals
  sb_code,      \* the script handed to execute_code_with_timeout
  sb_timeout,   \* its budget, in ticks
  sb_pc,        \* "idle", "running", "returned", "raised"
  sb_pos,       \* evaluations of Evaluations(sb_code) performed so far
  sb_clock,     \* ticks elapsed since the call was made
  sb_stdout,    \* what OutputCapture holds
  sb_result,    \* the dict returned, or the exception raised
  loop_owner,   \* who runs on the event-loop thread: "free" or "sandbox"
  other_pending, \* callbacks of other requests waiting for the event loop
  plugins,      \* PluginManager.plugins, the manifest table
  SHOW_VCP_OUTPUT, \* the verbosity flag (environment ShowVCP)
  pc,           \* where the handler of the chat request stands
  is_streaming, \* original_body['stream']
  upstream,     \* the message lists posted upstream, in order
  replies,      \* the assistant contents received from upstream, in order
  current_ai_content,   \* buffered: the latest assistant content
  current_messages,     \* buffered: the conversation sent upstream next
  conversation_history, \* buffered: the items of the final answer
  recursion_depth,      \* buffered: the loop variable
  sse_content,  \* streaming: the accumulated first response
  messages_for_next_call, \* streaming: the augmented conversation
  out,          \* streaming: the events yielded to the client
  response,     \* buffered: what the caller is given back
  tool_failures, \* the failures process_tool_call has raised so far
  code_failures, \* the failures execute_code_blocks has reported so far
  x_caller,     \* SpecExec: "execute_plugin" or "_execute_static_plugin_command"
  x_script,     \* what the plugin command writes and exits with, left alone
  x_shell_execs, \* whether /bin/sh replaces itself with the command
  x_pc,         \* "idle", "communicate", "except_timeout", "ended"
  x_shell,      \* the process behind `process`: "none", "running", "exited", "killed"
  x_child,      \* the command forked by the shell: "none", "running", "exited"
  x_written,    \* how much of the output is in the pipe: "none", "partial", "all"
  x_expired,    \* whether wait_for has raised asyncio.TimeoutError
  x_result,     \* <<>> until the call ends, then what it returned or raised
  static_placeholder_values, \* PluginManager.static_placeholder_values
  st_plugins,   \* SpecStatic: the manifests of self.plugins, in order
  st_i,         \* initialize_static_plugins: index of the plugin it is at
  st_pc,        \* initialize_static_plugins: "loop", "done", "raised"
  st_jobs,      \* the scheduler's jobs: plugin name -> trigger, or "none"
  st_running,   \* scheduler.running
  st_invoked,   \* how often initialize_static_plugins has run each plugin
  st_failed,    \* plugins whose command or scheduling failed at startup
  st_good,      \* per placeholder, the value of its latest successful refresh
  st_last,      \* the latest refresh: plugin, command result, values before
  ld_dir,       \* SpecLoad: the folders of the plugin directory, in scan order
  ld_i,         \* load_plugins: index of the folder it is at
  ld_pc,        \* load_plugins: "scan", "done", "raised"
  ld_plugins,   \* self.plugins as load_plugins builds it: name -> manifest
  ld_listing,   \* what list_plugins of the admin API last returned, <<>> before
  rt_requests,  \* SpecRound: the requests to put into markup
  rt_pc,        \* SpecRound: "init", "rendered", "parsed"
  rt_markup,    \* SpecRound: the markup of rt_requests
  rt_parsed,    \* SpecRound: what parse_multiple_vcp_requests made of it
  cf_manifest,  \* SpecConfig: configSchema and pluginSpecificEnvConfig of a plugin
  cf_environ,   \* SpecConfig: os.environ
  cf_pc,        \* SpecConfig: "init", "returned"
  cf_config,    \* SpecConfig: the dict _get_plugin_config returned
  ex_text,      \* SpecExpand: the placeholder tokens of the text, in order
  ex_env,       \* SpecExpand: environment, caches and flags the expansion reads
  ex_pc,        \* SpecExpand: "init", "done"
  ex_out,        \* SpecExpand: what stands in place of each token afterwards
  sh_plugins,   \* SpecShared: PluginManager.plugins, the manifest table
  sh_static,   \* SpecShared: PluginManager.static_placeholder_values
  sh_pc,   \* SpecShared: where each chat request stands
  sh_tool,   \* SpecShared: the tool each chat request calls
  sh_seen,   \* SpecShared: what each chat request got from its lookups
  tr_text,   \* SpecToolRound: the reply of the model
  tr_requests,   \* SpecToolRound: vcp_requests
  tr_next,   \* SpecToolRound: index of the request the for loop takes next
  tr_running,   \* SpecToolRound: requests started and not yet finished
  tr_log,   \* SpecToolRound: starts and ends of process_tool_call, as they happen
  tr_results,   \* SpecToolRound: tool_results
  tr_pc,   \* SpecToolRound: reply, loop, sent
  tr_sent,   \* SpecToolRound: content of the user message sent upstream
  running_tasks,   \* SpecTasks: TaskManager.running_tasks, the ids it holds
  tm_status,   \* SpecTasks: Task.status in the database, per task id
  tm_message,   \* SpecTasks: Task.error_message in the database
  tm_submit,   \* SpecTasks: where submit_task stands, per task id
  tm_wrapper,   \* SpecTasks: where task_wrapper stands on its worker thread
  tm_cancelled   \* SpecTasks: ids for which cancel_task has returned True

parseVars == <<p_text, p_pc, p_stream, p_buffered>>
sandboxVars == <<execution_globals, sb_code, sb_timeout, sb_pc, sb_pos,
                 sb_clock, sb_stdout, sb_result, loop_owner, other_pending>>
chatVars == <<plugins, SHOW_VCP_OUTPUT, pc, is_streaming, upstream, replies,
              current_ai_content, current_messages, conversation_history,
              recursion_depth, sse_content, messages_for_next_call, out,
              response, tool_failures, code_failures>>
execVars == <<x_caller, x_script, x_shell_execs, x_pc, x_shell, x_child,
              x_written, x_expired, x_result>>
staticVars == <<static_placeholder_values, st_plugins, st_i, st_pc, st_jobs,
                st_running, st_invoked, st_failed, st_good, st_last>>
loadVars == <<ld_dir, ld_i, ld_pc, ld_plugins, ld_listing>>
roundVars == <<rt_requests, rt_pc, rt_markup, rt_parsed>>
configVars == <<cf_manifest, cf_environ, cf_pc, cf_config>>
expandVars == <<ex_text, ex_env, ex_pc, ex_out>>
sharedVars == <<sh_plugins, sh_static, sh_pc, sh_tool, sh_seen>>
toolRoundVars == <<tr_text, tr_requests, tr_next, tr_running, tr_log, tr_results, tr_pc, tr_sent>>
taskVars == <<running_tasks, tm_status, tm_message, tm_submit, tm_wrapper, tm_cancelled>>
otherVars == <<roundVars, configVars, expandVars, sharedVars, toolRoundVars,
               taskVars>>
vars == <<parseVars, sandboxVars, chatVars, execVars, staticVars, loadVars,
          otherVars>>

NoContent == AiContent(0, <<>>)
NoResponse == [status |-> 0, kind |-> "none", content |-> <<>>]

\* the orchestration before any request
ChatIdle ==
  /\ plugins = Registry
  /\ SHOW_VCP_OUTPUT = FALSE
  /\ pc = "idle"
  /\ is_streaming = FALSE
  /\ upstream = <<>>
  /\ replies = <<>>
  /\ current_ai_content = NoContent
  /\ current_messages = <<>>
  /\ conversation_history = <<>>
  /\ recursion_depth = 0
  /\ sse_content = NoContent
  /\ messages_for_next_call = <<>>
  /\ out = <<>>
  /\ response = NoResponse
  /\ tool_failures = <<>>
  /\ code_failures = <<>>

NoResult == [success |-> FALSE, output |-> <<>>, error |-> ""]

\* the sandbox before any call, as CodeExecutor.__init__ leaves it
SandboxIdle ==
  /\ execution_globals = create_safe_globals(ToolDirs)
  /\ sb_code = <<>>
  /\ sb_timeout = 0
  /\ sb_pc = "idle"
  /\ sb_pos = 0
  /\ sb_clock = 0
  /\ sb_stdout = <<>>
  /\ sb_result = NoResult
  /\ loop_owner = "free"
  /\ other_pending = 0

\* ------------------------------------------------------------------------
\* Static plugins: placeholder values and their scheduled refresh
\* ------------------------------------------------------------------------
StaticManifest(name, type, placeholders, cron) ==
  [name |-> name, pluginType |-> type, placeholders |-> placeholders,
   refreshIntervalCron |-> cron]

\* refreshIntervalCron: "valid" is five fields the scheduler accepts,
\* "unparsable" five fields it rejects, "short" fewer than five fields,
\* "none" a manifest without the key
CronKinds == {"valid", "unparsable", "short", "none"}

AllPlaceholders == {"{{Time}}", "{{Date}}", "{{News}}"}

StaticPlugins(clock_cron, feed_cron) ==
  <<StaticManifest("Clock", "static", <<"{{Time}}", "{{Date}}">>, clock_cron),
    StaticManifest("Echo", "synchronous", <<>>, "none"),
    StaticManifest("Feed", "static", <<"{{News}}">>, feed_cron)>>

StaticNames == {"Clock", "Feed"}

\* _parse_cron: the trigger fields handed to add_job
parse_cron(cron_str) ==
  IF cron_str \in {"valid", "unparsable"} THEN "five_fields" ELSE "no_fields"

\* scheduler.add_job(..., 'cron', **fields) raises on fields it cannot parse
add_job_raises(cron_str) == cron_str = "unparsable"

\* the index the loop goes on with after add_job, had its exception not
\* been caught: 0 stands for leaving initialize_static_plugins
AfterAddJob_Propagate(i, failed) == IF failed THEN 0 ELSE i + 1

\* "except Exception as e: print(...)": the loop goes on with the next plugin
AfterAddJob(i, failed) == i + 1

\* what a static plugin's command writes to standard output
StaticOutputs ==
  {<<>>, <<" ">>, <<"sunny">>, <<" ", "rain", " ">>, <<"[Error", "feed", "down]">>}

\* str(error) for the exceptions of _execute_static_plugin_command
StaticFailures ==
  {"Plugin exited with code 1", "execution timed out", "missing command"}

\* the results of _execute_static_plugin_command: the stripped output, or
\* the exception
CommandResults ==
  {[raised |-> FALSE, msg |-> "", stdout |-> Strip(o)] : o \in StaticOutputs}
    \cup {[raised |-> TRUE, msg |-> m, stdout |-> <<>>] : m \in StaticFailures}

ErrorMarker(name, msg) == <<"[Error", "updating", name, msg, "...]">>
Unavailable(name) == <<"[", name, "data currently unavailable]">>

\* current_value.startswith("[Error")
StartsWithError(v) == v # <<>> /\ v[1] = "[Error"

\* the value of one placeholder after a refresh that puts the
\* "currently unavailable" marker where the command has failed
NewValue_UnavailableOnFailure(name, current_value, res) ==
  IF ~res.raised /\ Strip(res.stdout) # <<>> THEN Strip(res.stdout)
  ELSE IF current_value = <<>> THEN Unavailable(name)
  ELSE current_value

\* the value of one placeholder after a refresh that stores nothing when
\* the command wrote nothing
NewValue_NothingOnEmpty(name, current_value, res) ==
  IF ~res.raised /\ Strip(res.stdout) # <<>> THEN Strip(res.stdout)
  ELSE IF res.raised
       THEN IF current_value = <<>> \/ StartsWithError(current_value)
            THEN ErrorMarker(name, res.msg)
            ELSE current_value
  ELSE current_value

\* _update_static_plugin_value, for one placeholder: <<>> is "no entry"
NewValue(name, current_value, res) ==
  IF ~res.raised /\ Strip(res.stdout) # <<>> THEN Strip(res.stdout)
  ELSE IF res.raised
       THEN IF current_value = <<>> \/ StartsWithError(current_value)
            THEN ErrorMarker(name, res.msg)
            ELSE current_value
  ELSE IF current_value = <<>> THEN Unavailable(name)
  ELSE current_value

PlaceholdersOf(plugin) ==
  {plugin.placeholders[k] : k \in 1..Len(plugin.placeholders)}

\* _update_static_plugin_value: the cache after the refresh of one plugin
update_static_plugin_value(values, plugin, res) ==
  [ph \in AllPlaceholders |->
     IF ph \in PlaceholdersOf(plugin)
     THEN NewValue(plugin.name, values[ph], res)
     ELSE values[ph]]

\* the value of the latest successful refresh, per placeholder
GoodAfter(good, plugin, res) ==
  [ph \in AllPlaceholders |->
     IF ph \in PlaceholdersOf(plugin) /\ ~res.raised /\ Strip(res.stdout) # <<>>
     THEN Strip(res.stdout)
     ELSE good[ph]]

NoValues == [ph \in AllPlaceholders |-> <<>>]

\* the static plugins before initialize_static_plugins
StaticIdle ==
  /\ static_placeholder_values = NoValues
  /\ st_plugins = StaticPlugins("none", "none")
  /\ st_i = 1
  /\ st_pc = "loop"
  /\ st_jobs = [n \in StaticNames |-> "none"]
  /\ st_running = FALSE
  /\ st_invoked = [n \in StaticNames |-> 0]
  /\ st_failed = {}
  /\ st_good = NoValues
  /\ st_last = <<>>

\* ------------------------------------------------------------------------
\* Plugin directory: load_plugins and the admin listing
\* ------------------------------------------------------------------------
ManifestKeys == {"name", "pluginType", "entryPoint"}

\* one folder of the plugin directory.  file: "json" for plugin-manifest.json,
\* "block" for plugin-manifest.json.block alone, "none" for neither; parses:
\* whether the file is JSON; keys and name: the object it holds; env: whether
\* the folder has a .env file
Folder(file, parses, keys, name, env) ==
  [file |-> file, parses |-> parses, keys |-> keys, name |-> name, env |-> env]

PluginNames == {"Echo", "Clock"}

FolderKinds ==
  {Folder("none", FALSE, {}, "Echo", FALSE)}
    \cup {Folder("json", TRUE, ManifestKeys, n, e) : n \in PluginNames, e \in BOOLEAN}
    \cup {Folder("json", TRUE, ManifestKeys \ {k}, "Echo", FALSE) : k \in ManifestKeys}
    \cup {Folder(f, FALSE, {}, "Echo", FALSE) : f \in {"json", "block"}}
    \cup {Folder("block", TRUE, ManifestKeys, n, FALSE) : n \in PluginNames}

\* manifest_path.exists(), had the loader looked for the blocked file too
manifest_exists_OrBlocked(folder) == folder.file \in {"json", "block"}

\* manifest_path.exists(), for manifest_path = folder / "plugin-manifest.json"
manifest_exists(folder) == folder.file = "json"

\* the required fields, with the name alone
required_fields_NameOnly == {"name"}

\* required_fields of load_plugins
required_fields == {"name", "pluginType", "entryPoint"}

\* the duplicate check left out
IsDuplicate_Never(registry, name) == FALSE

\* "if manifest['name'] in self.plugins"
IsDuplicate(registry, name) == name \in DOMAIN registry

\* the exception json.loads raises in the pass for a folder, "none" if none
FolderException(folder) ==
  IF manifest_exists(folder) /\ ~folder.parses THEN "JSONDecodeError" ELSE "none"

\* the except clauses around one folder
Handled == {"JSONDecodeError", "Exception"}

\* the manifest as load_plugins stores it: basePath is the folder, env the
\* values of the folder's .env file
Loaded(path, folder) ==
  [name |-> folder.name,
   keys |-> folder.keys \cup {"basePath"}
              \cup (IF folder.env THEN {"pluginSpecificEnvConfig"} ELSE {}),
   basePath |-> path,
   env |-> IF folder.env THEN <<path>> ELSE <<>>]

\* self.plugins after the pass of load_plugins for one folder
LoadFolder(registry, path, folder) ==
  IF ~manifest_exists(folder) THEN registry
  ELSE IF ~folder.parses THEN registry
  ELSE IF ~(required_fields \subseteq folder.keys) THEN registry
  ELSE IF IsDuplicate(registry, folder.name) THEN registry
  ELSE [n \in DOMAIN registry \cup {folder.name} |->
          IF n = folder.name THEN Loaded(path, folder) ELSE registry[n]]

\* list_plugins of the admin API: name, state and folder of every plugin
RECURSIVE ListFrom(_, _)
ListFrom(dir, i) ==
  IF i > Len(dir) THEN <<>>
  ELSE LET folder == dir[i]
           readable == folder.file \in {"json", "block"} /\ folder.parses
                         /\ "name" \in folder.keys
       IN (IF readable
           THEN <<[name |-> folder.name, enabled |-> folder.file = "json",
                   folder |-> i]>>
           ELSE <<>>) \o ListFrom(dir, i + 1)

list_plugins(dir) == ListFrom(dir, 1)

NoRegistry == [n \in {} |-> Loaded(0, Folder("none", FALSE, {}, "Echo", FALSE))]

\* the loader before any scan
LoadIdle ==
  /\ ld_dir = <<>>
  /\ ld_i = 1
  /\ ld_pc = "scan"
  /\ ld_plugins = NoRegistry
  /\ ld_listing = <<>>

\* the subprocess executor before any call
ExecIdle ==
  /\ x_caller = "execute_plugin"
  /\ x_script = [stdout |-> "", returncode |-> 0]
  /\ x_shell_execs = FALSE
  /\ x_pc = "idle"
  /\ x_shell = "none"
  /\ x_child = "none"
  /\ x_written = "none"
  /\ x_expired = FALSE
  /\ x_result = <<>>

RoundIdle ==
  /\ rt_requests = <<>>
  /\ rt_pc = "init"
  /\ rt_markup = <<>>
  /\ rt_parsed = <<>>

\* a value of the resolved config: an int, a bool or a str
Val(t, i, b, str) == [t |-> t, i |-> i, b |-> b, s |-> str]
IntVal(i) == Val("int", i, FALSE, "")
BoolVal(b) == Val("bool", 0, b, "")
StrVal(str) == Val("str", 0, FALSE, str)

NoDict == [k \in {} |-> ""]
NoConfig == [k \in {} |-> StrVal("")]

ConfigIdle ==
  /\ cf_manifest = [configSchema |-> NoDict, pluginSpecificEnvConfig |-> NoDict]
  /\ cf_environ = NoDict
  /\ cf_pc = "init"
  /\ cf_config = NoConfig

\* what replace_common_variables reads besides the text
ExpandEnv(var_user, emoji_prompt, weather, use_mcp, echo_described, port, image_key) ==
  [VarUser |-> var_user, EmojiPrompt |-> emoji_prompt, weather |-> weather,
   USE_MCP_CODE_EXECUTION |-> use_mcp, echo_described |-> echo_described,
   PORT |-> port, Image_Key |-> image_key]

ExpandIdle ==
  /\ ex_text = <<>>
  /\ ex_env = ExpandEnv("unset", FALSE, FALSE, FALSE, FALSE, FALSE, FALSE)
  /\ ex_pc = "init"
  /\ ex_out = <<>>

ChatRequests == 1..2
NoTable == [n \in {} |-> ""]

SharedIdle ==
  /\ sh_plugins = NoTable
  /\ sh_static = NoTable
  /\ sh_pc = [r \in ChatRequests |-> "received"]
  /\ sh_tool = [r \in ChatRequests |-> "Echo"]
  /\ sh_seen = [r \in ChatRequests |-> <<>>]

ToolRoundIdle ==
  /\ tr_text = <<>>
  /\ tr_requests = <<>>
  /\ tr_next = 1
  /\ tr_running = {}
  /\ tr_log = <<>>
  /\ tr_results = <<>>
  /\ tr_pc = "reply"
  /\ tr_sent = <<>>

TaskIds == {"t1", "t2"}

TasksIdle ==
  /\ running_tasks = {}
  /\ tm_status = [t \in TaskIds |-> "PENDING"]
  /\ tm_message = [t \in TaskIds |-> ""]
  /\ tm_submit = [t \in TaskIds |-> "idle"]
  /\ tm_wrapper = [t \in TaskIds |-> "none"]
  /\ tm_cancelled = {}

OthersIdle == TasksIdle /\ ToolRoundIdle /\ SharedIdle /\ RoundIdle /\ ConfigIdle /\ ExpandIdle

ParseIdle ==
  /\ p_text = <<>>
  /\ p_pc = "init"
  /\ p_stream = FALSE
  /\ p_buffered = <<>>

\* ------------------------------------------------------------------------
\* SpecParse: tool-call detection of the two modes on one text
\* ------------------------------------------------------------------------
NameEcho == <<"Echo">>
ParseTokens == {START, END, TXT, Pair("tool_name", NameEcho), Pair("msg", <<" ", "hi">>)}

TextsUpTo(n) == UNION {[1..m -> ParseTokens] : m \in 0..n}

ParseInit ==
  /\ p_text \in TextsUpTo(MaxTextLen)
  /\ p_pc = "init"
  /\ p_stream = FALSE
  /\ p_buffered = <<>>
  /\ SandboxIdle
  /\ ChatIdle
  /\ ExecIdle
  /\ StaticIdle
  /\ LoadIdle
  /\ OthersIdle

\* the detection generate_stream runs on the accumulated text
StreamDetect ==
  /\ p_pc = "init"
  /\ p_stream' = (parse_vcp_request(p_text) # <<>>)
  /\ p_pc' = "stream"
  /\ UNCHANGED <<execVars, staticVars, loadVars, otherVars, p_text, p_buffered, sandboxVars, chatVars>>

\* the detection handle_non_streaming_response runs on the same text
BufferedDetect ==
  /\ p_pc = "stream"
  /\ p_buffered' = parse_multiple_vcp_requests(p_text)
  /\ p_pc' = "scanned"
  /\ UNCHANGED <<execVars, staticVars, loadVars, otherVars, p_text, p_stream, sandboxVars, chatVars>>

ParseNext == StreamDetect \/ BufferedDetect

SpecParse == ParseInit /\ [][ParseNext]_vars

\* C6: streaming mode detects a tool call exactly when
\* parse_multiple_vcp_requests on the same text returns a non-empty list.
C6_SameDetection ==
  p_pc = "scanned" => (p_stream = (p_buffered # <<>>))

\* C20: a tool-call block without a tool_name pair yields no request: the
\* parsers return a request only for blocks that hold such a pair, every
\* request they return has its tool name and its arguments, and a text whose
\* first block has no such pair gives None from parse_vcp_request.
C20_NamelessBlockYieldsNothing ==
  p_pc = "scanned" =>
    LET blocks == RequestBlocks(p_text, 1)
        named == SelectSeq(blocks, HasToolName)
    IN /\ Len(p_buffered) <= Len(named)
       /\ \A k \in 1..Len(p_buffered) :
            /\ DOMAIN p_buffered[k] = {"tool_name", "args"}
            /\ p_buffered[k].tool_name # <<>>
       /\ (blocks # <<>> /\ ~HasToolName(blocks[1])) => ~p_stream

\* a text whose first block has a msg pair and no tool_name pair has been
\* scanned, and neither parser has returned a request
C20_Witness ==
  /\ p_pc = "scanned"
  /\ LET blocks == RequestBlocks(p_text, 1)
     IN /\ blocks # <<>>
        /\ ~HasToolName(blocks[1])
        /\ \E i \in 1..Len(blocks[1]) : blocks[1][i].t = "pair"
  /\ p_buffered = <<>>
  /\ ~p_stream

\* ------------------------------------------------------------------------
\* SpecSandbox: execute_code_with_timeout on the event loop
\* ------------------------------------------------------------------------
Scripts == UNION {[1..m -> StmtKinds] : m \in 0..MaxScriptLen}
Budgets == {0, 1, 2}

SandboxInit ==
  /\ execution_globals \in {create_safe_globals(d) : d \in SUBSET ToolDirs}
  /\ sb_code \in Scripts
  /\ sb_timeout \in Budgets
  /\ sb_pc = "idle"
  /\ sb_pos = 0
  /\ sb_clock = 0
  /\ sb_stdout = <<>>
  /\ sb_result = NoResult
  /\ loop_owner = "free"
  /\ other_pending = MaxOther
  /\ ParseIdle
  /\ ChatIdle
  /\ ExecIdle
  /\ StaticIdle
  /\ LoadIdle
  /\ OthersIdle

\* execute_code_with_timeout: asyncio.wait_for(self.execute_code(...), timeout).
\* A budget <= 0 cancels the coroutine before it starts; otherwise the
\* coroutine is started and, having no await in it, keeps the thread.
execute_code_with_timeout ==
  /\ sb_pc = "idle"
  /\ loop_owner = "free"
  /\ IF sb_timeout <= 0
     THEN /\ sb_pc' = "raised"
          /\ sb_result' = [success |-> FALSE, output |-> <<>>,
                           error |-> "CodeTimeoutError"]
          /\ UNCHANGED loop_owner
     ELSE /\ sb_pc' = "running"
          /\ loop_owner' = "sandbox"
          /\ UNCHANGED sb_result
  /\ UNCHANGED <<execVars, staticVars, loadVars, otherVars, execution_globals, sb_code, sb_timeout, sb_pos, sb_clock,
                 sb_stdout, other_pending, parseVars, chatVars>>

\* exec()/eval() evaluate the next statement; one tick each
EvaluateStatement ==
  /\ sb_pc = "running"
  /\ sb_pos < Len(Evaluations(sb_code))
  /\ ~(Hangs(sb_code) /\ sb_pos + 1 = Len(Evaluations(sb_code)))
  /\ sb_pos' = sb_pos + 1
  /\ sb_clock' = sb_clock + 1
  /\ sb_stdout' = sb_stdout \o Writes(sb_code[Evaluations(sb_code)[sb_pos + 1]])
  /\ UNCHANGED <<execVars, staticVars, loadVars, otherVars, execution_globals, sb_code, sb_timeout, sb_pc, sb_result,
                 loop_owner, other_pending, parseVars, chatVars>>

\* the statement that never finishes: another turn of "while True"
SpinForever ==
  /\ sb_pc = "running"
  /\ Hangs(sb_code)
  /\ sb_pos + 1 = Len(Evaluations(sb_code))
  /\ sb_clock < MaxClock
  /\ sb_clock' = sb_clock + 1
  /\ UNCHANGED <<execVars, staticVars, loadVars, otherVars, execution_globals, sb_code, sb_timeout, sb_pc, sb_pos,
                 sb_stdout, sb_result, loop_owner, other_pending, parseVars, chatVars>>

\* execute_code returns its dict; wait_for finds the future done and
\* returns its result, however long the script took
ReturnResult ==
  /\ sb_pc = "running"
  /\ ~Hangs(sb_code)
  /\ sb_pos = Len(Evaluations(sb_code))
  /\ sb_pc' = "returned"
  /\ sb_result' = execute_code(sb_code)
  /\ loop_owner' = "free"
  /\ UNCHANGED <<execVars, staticVars, loadVars, otherVars, execution_globals, sb_code, sb_timeout, sb_pos, sb_clock,
                 sb_stdout, other_pending, parseVars, chatVars>>

\* the event loop runs a callback of another request when its thread is free
ServeOther ==
  /\ loop_owner = "free"
  /\ other_pending > 0
  /\ other_pending' = other_pending - 1
  /\ UNCHANGED <<execVars, staticVars, loadVars, otherVars, execution_globals, sb_code, sb_timeout, sb_pc, sb_pos,
                 sb_clock, sb_stdout, sb_result, loop_owner, parseVars, chatVars>>

SandboxNext ==
  \/ execute_code_with_timeout
  \/ EvaluateStatement
  \/ SpinForever
  \/ ReturnResult
  \/ ServeOther

SpecSandbox == SandboxInit /\ [][SandboxNext]_vars

\* how often execute_code has evaluated statement i so far
EvalCount(i) ==
  Cardinality({n \in 1..sb_pos : Evaluations(sb_code)[n] = i})

\* C8: execute_code_with_timeout always completes: once the budget has
\* expired the call has ended in a timeout failure, the event loop is free
\* for other requests and the script is no longer running.
C8_TimeoutEnforced ==
  (sb_pc # "idle" /\ sb_clock > sb_timeout) =>
     /\ sb_pc = "raised"
     /\ loop_owner = "free"

\* C9: for a script that terminates normally the returned stdout is what one
\* execution of the script writes, and no statement is evaluated twice.
C9_SingleEvaluation ==
  (sb_pc = "returned" /\ sb_result.success) =>
     /\ sb_result.output = OneRun(sb_code)
     /\ \A i \in 1..Len(sb_code) : EvalCount(i) <= 1

Call(name) == <<START, Pair("tool_name", <<name>>), END>>

T_plain == <<TXT>>
T_echo == <<TXT, START, Pair("tool_name", <<" ", "Echo">>), Pair("msg", <<"hi">>), END>>
T_two == Call("Ghost") \o <<TXT>> \o Call("Echo")
T_noname == <<START, Pair("msg", <<"hi">>), END>> \o Call("Clock")
T_fail3 == Call("Err") \o Call("Crash") \o Call("Slow")
T_code_ok == <<TXT, Code("ok")>>
T_code_bad == <<Code("ok"), Code("bad")>>
T_code_spin == <<Code("spin")>>
T_code_echo == <<Code("ok")>> \o Call("Echo")

\* the texts the upstream model answers with
ModelTexts == {T_plain, T_echo, T_two, T_noname, T_fail3, T_code_ok,
               T_code_bad, T_code_spin, T_code_echo}

\* an upstream call either answers with a text or fails in transport
Answers == {<<t>> : t \in ModelTexts} \cup {<<>>}

Init ==
  /\ plugins = Registry
  /\ SHOW_VCP_OUTPUT \in BOOLEAN
  /\ pc = "idle"
  /\ is_streaming = FALSE
  /\ upstream = <<>>
  /\ replies = <<>>
  /\ current_ai_content = NoContent
  /\ current_messages = <<>>
  /\ conversation_history = <<>>
  /\ recursion_depth = 0
  /\ sse_content = NoContent
  /\ messages_for_next_call = <<>>
  /\ out = <<>>
  /\ response = NoResponse
  /\ tool_failures = <<>>
  /\ code_failures = <<>>
  /\ ParseIdle
  /\ SandboxIdle
  /\ ExecIdle
  /\ StaticIdle
  /\ LoadIdle
  /\ OthersIdle

ErrorResponse == [status |-> 500, kind |-> "error", content |-> <<>>]
Event(ev, content) == [ev |-> ev, content |-> content]
DONE == Event("[DONE]", NoContent)

\* chat_completions: the first upstream call and the dispatch on 'stream';
\* an exception anywhere below it ends in the 500 response.  The image
\* preprocessor and the variable expansion rewrite the messages before the
\* call and leave the orchestration state alone; the upstream reply is a
\* JSON body with one choice.
chat_completions ==
  /\ pc = "idle"
  /\ \E stream \in BOOLEAN, answer \in Answers :
       /\ is_streaming' = stream
       /\ upstream' = <<OriginalMessages>>
       /\ IF answer = <<>>
          THEN /\ response' = ErrorResponse
               /\ pc' = "done"
               /\ UNCHANGED <<replies, current_ai_content, sse_content, out>>
          ELSE /\ replies' = <<AiContent(1, answer[1])>>
               /\ UNCHANGED response
               /\ IF stream
                  THEN /\ sse_content' = AiContent(1, answer[1])
                       /\ out' = <<Event("relay", AiContent(1, answer[1]))>>
                       /\ pc' = "s_code"
                       /\ UNCHANGED current_ai_content
                  ELSE /\ current_ai_content' = AiContent(1, answer[1])
                       /\ pc' = "b_scan"
                       /\ UNCHANGED <<sse_content, out>>
  /\ UNCHANGED <<execVars, staticVars, loadVars, otherVars, plugins, SHOW_VCP_OUTPUT, current_messages,
                 conversation_history, recursion_depth,
                 messages_for_next_call, tool_failures, code_failures,
                 parseVars, sandboxVars>>

\* handle_non_streaming_response up to the loop: code blocks first, then
\* the tool-call requests of the first response
HandleFirstResponse ==
  /\ pc = "b_scan"
  /\ LET text == current_ai_content.text
         code_result == execute_code_blocks(text)
     IN IF has_code_blocks(text)
        THEN IF BlocksHang(extract_code_blocks(text))
             THEN /\ pc' = "hung"
                  /\ UNCHANGED <<response, code_failures, current_messages,
                                 conversation_history>>
             ELSE /\ pc' = "done"
                  /\ response' =
                       [status |-> 200, kind |-> "code",
                        content |-> <<current_ai_content,
                                      IF code_result.success
                                      THEN CodeResult(code_result.combined_output)
                                      ELSE CodeError(code_result.errors[1])>>]
                  /\ code_failures' =
                       IF code_result.success THEN code_failures
                       ELSE Append(code_failures, CodeError(code_result.errors[1]))
                  /\ UNCHANGED <<current_messages, conversation_history>>
        ELSE IF parse_multiple_vcp_requests(text) = <<>>
             THEN /\ pc' = "done"
                  /\ response' = [status |-> 200, kind |-> "raw",
                                  content |-> <<current_ai_content>>]
                  /\ UNCHANGED <<code_failures, current_messages,
                                 conversation_history>>
             ELSE /\ pc' = "b_loop"
                  /\ conversation_history' = <<>>
                  /\ current_messages' = OriginalMessages
                  /\ UNCHANGED <<response, code_failures>>
  /\ recursion_depth' = 0
  /\ UNCHANGED <<execVars, staticVars, loadVars, otherVars, plugins, SHOW_VCP_OUTPUT, is_streaming, upstream, replies,
                 current_ai_content, sse_content, messages_for_next_call,
                 out, tool_failures, parseVars, sandboxVars>>

\* one pass of "for recursion_depth in range(max_recursion)" up to the
\* upstream call: history, scan, break or execution of all tool calls
LoopIteration ==
  /\ pc = "b_loop"
  /\ LET vcp_requests == parse_multiple_vcp_requests(current_ai_content.text)
         history == Append(conversation_history,
                           [type |-> "ai", content |-> current_ai_content])
         ran == RunTools(plugins, vcp_requests, SHOW_VCP_OUTPUT,
                         [tool_results |-> <<>>, history |-> history,
                          failures |-> tool_failures])
     IN IF ~InRange(recursion_depth)
        THEN /\ pc' = "b_final"
             /\ UNCHANGED <<conversation_history, current_messages,
                            tool_failures>>
        ELSE IF vcp_requests = <<>>
        THEN /\ pc' = "b_final"
             /\ conversation_history' = history
             /\ UNCHANGED <<current_messages, tool_failures>>
        ELSE /\ pc' = "b_call"
             /\ conversation_history' = ran.history
             /\ current_messages' =
                  current_messages \o
                    <<Message("assistant", <<current_ai_content>>),
                      Message("user", ran.tool_results)>>
             /\ tool_failures' = ran.failures
  /\ UNCHANGED <<execVars, staticVars, loadVars, otherVars, plugins, SHOW_VCP_OUTPUT, is_streaming, upstream, replies,
                 current_ai_content, recursion_depth, sse_content,
                 messages_for_next_call, out, response, code_failures,
                 parseVars, sandboxVars>>

\* "next_response = await client.post(...)" of the loop
NextAICall ==
  /\ pc = "b_call"
  /\ \E answer \in Answers :
       /\ upstream' = Append(upstream, current_messages)
       /\ IF answer = <<>>
          THEN /\ response' = ErrorResponse
               /\ pc' = "done"
               /\ UNCHANGED <<replies, current_ai_content, recursion_depth>>
          ELSE /\ current_ai_content' = AiContent(Len(upstream) + 1, answer[1])
               /\ replies' = Append(replies, AiContent(Len(upstream) + 1, answer[1]))
               /\ recursion_depth' = recursion_depth + 1
               /\ pc' = "b_loop"
               /\ UNCHANGED response
  /\ UNCHANGED <<execVars, staticVars, loadVars, otherVars, plugins, SHOW_VCP_OUTPUT, is_streaming, current_messages,
                 conversation_history, sse_content, messages_for_next_call,
                 out, tool_failures, code_failures, parseVars, sandboxVars>>

\* the final answer: the history items, then current_ai_content
BuildFinalResponse ==
  /\ pc = "b_final"
  /\ response' =
       [status |-> 200, kind |-> "final",
        content |-> FinalOf(conversation_history, SHOW_VCP_OUTPUT)
                      \o <<current_ai_content>>]
  /\ pc' = "done"
  /\ UNCHANGED <<execVars, staticVars, loadVars, otherVars, plugins, SHOW_VCP_OUTPUT, is_streaming, upstream, replies,
                 current_ai_content, current_messages, conversation_history,
                 recursion_depth, sse_content, messages_for_next_call, out,
                 tool_failures, code_failures, parseVars, sandboxVars>>

\* generate_stream after the first stream has been relayed: the code-block
\* branch, up to its second upstream call
StreamCodePhase ==
  /\ pc = "s_code"
  /\ LET text == sse_content.text
         code_result == execute_code_blocks(text)
         marked == Append(out, Event("[CODE_EXECUTION]", NoContent))
     IN IF ~has_code_blocks(text)
        THEN /\ pc' = "s_vcp"
             /\ UNCHANGED <<out, messages_for_next_call, code_failures>>
        ELSE IF BlocksHang(extract_code_blocks(text))
        THEN /\ pc' = "hung"
             /\ out' = marked
             /\ UNCHANGED <<messages_for_next_call, code_failures>>
        ELSE IF code_result.success
        THEN /\ pc' = "s_code_call"
             /\ out' = marked
             /\ messages_for_next_call' =
                  OriginalMessages \o
                    <<Message("assistant", <<sse_content>>),
                      Message("user", <<CodeResult(code_result.combined_output)>>)>>
             /\ UNCHANGED code_failures
        ELSE /\ pc' = "s_vcp"
             /\ out' = marked \o
                  <<Event("error", CodeError(code_result.errors[1])), DONE>>
             /\ code_failures' =
                  Append(code_failures, CodeError(code_result.errors[1]))
             /\ UNCHANGED messages_for_next_call
  /\ UNCHANGED <<execVars, staticVars, loadVars, otherVars, plugins, SHOW_VCP_OUTPUT, is_streaming, upstream, replies,
                 current_ai_content, current_messages, conversation_history,
                 recursion_depth, sse_content, response, tool_failures,
                 parseVars, sandboxVars>>

\* the second upstream call of a branch of generate_stream, relayed verbatim
\* and closed by [DONE]; a transport failure becomes an error event
SecondCall(next_pc) ==
  /\ \E answer \in Answers :
       /\ upstream' = Append(upstream, messages_for_next_call)
       /\ IF answer = <<>>
          THEN /\ out' = out \o <<Event("error", NoContent), DONE>>
               /\ UNCHANGED replies
          ELSE /\ out' = out \o
                    <<Event("relay", AiContent(Len(upstream) + 1, answer[1])), DONE>>
               /\ replies' = Append(replies, AiContent(Len(upstream) + 1, answer[1]))
  /\ pc' = next_pc
  /\ UNCHANGED <<execVars, staticVars, loadVars, otherVars, plugins, SHOW_VCP_OUTPUT, is_streaming, current_ai_content,
                 current_messages, conversation_history, recursion_depth,
                 sse_content, messages_for_next_call, response,
                 tool_failures, code_failures, parseVars, sandboxVars>>

\* the second call after the code blocks; the generator then goes on to the
\* tool-call check below it
StreamCodeSecondCall ==
  /\ pc = "s_code_call"
  /\ SecondCall("s_vcp")

\* the tool-call branch of generate_stream, up to its second upstream call
StreamToolPhase ==
  /\ pc = "s_vcp"
  /\ LET vcp_request == parse_vcp_request(sse_content.text)
         tool_name == vcp_request[1].tool_name
         r == process_tool_call(plugins, tool_name)
         marked == Append(out, Event("[TOOL_CALL_DETECTED]", NoContent))
     IN IF vcp_request = <<>>
        THEN /\ pc' = "done"
             /\ out' = Append(out, DONE)
             /\ UNCHANGED <<messages_for_next_call, tool_failures>>
        ELSE IF r.raised
        THEN /\ pc' = "done"
             /\ out' = marked \o
                  <<Event("error", ToolError(tool_name, r.val)), DONE>>
             /\ tool_failures' = Append(tool_failures, ToolError(tool_name, r.val))
             /\ messages_for_next_call' =
                  OriginalMessages \o <<Message("assistant", <<sse_content>>)>>
        ELSE /\ pc' = "s_tool_call"
             /\ out' = marked
             /\ messages_for_next_call' =
                  OriginalMessages \o
                    <<Message("assistant", <<sse_content>>),
                      Message("user", <<ToolResult(tool_name, r.val)>>)>>
             /\ UNCHANGED tool_failures
  /\ UNCHANGED <<execVars, staticVars, loadVars, otherVars, plugins, SHOW_VCP_OUTPUT, is_streaming, upstream, replies,
                 current_ai_content, current_messages, conversation_history,
                 recursion_depth, sse_content, response, code_failures,
                 parseVars, sandboxVars>>

StreamToolSecondCall ==
  /\ pc = "s_tool_call"
  /\ SecondCall("done")

Next ==
  \/ chat_completions
  \/ HandleFirstResponse
  \/ LoopIteration
  \/ NextAICall
  \/ BuildFinalResponse
  \/ StreamCodePhase
  \/ StreamCodeSecondCall
  \/ StreamToolPhase
  \/ StreamToolSecondCall

Spec == Init /\ [][Next]_vars

\* ------------------------------------------------------------------------
\* Claims about the orchestration
\* ------------------------------------------------------------------------
\* the pieces of every message of a conversation
RECURSIVE PiecesOf(_)
PiecesOf(messages) ==
  IF messages = <<>> THEN {}
  ELSE {Head(messages).content[i] : i \in 1..Len(Head(messages).content)}
         \cup PiecesOf(Tail(messages))

\* piece f was sent upstream in a follow-up call
SentInFollowUp(f) == \E i \in 2..Len(upstream) : f \in PiecesOf(upstream[i])

Range(seq) == {seq[i] : i \in 1..Len(seq)}

\* C1: a buffered request issues at most max_recursion upstream calls in
\* total, the first call of chat_completions included.
C1_AtMostKCalls ==
  ~is_streaming => Len(upstream) <= max_recursion

\* C1 (amended): the loop of a buffered request issues at most max_recursion
\* follow-up calls, that is max_recursion + 1 upstream calls in total with
\* the first call of chat_completions.
C1_AtMostKFollowUps ==
  ~is_streaming => Len(upstream) <= max_recursion + 1

\* every round had a tool call: the loop ran to its bound and answered
C1_Witness ==
  /\ ~is_streaming
  /\ pc = "done"
  /\ response.kind = "final"
  /\ recursion_depth = max_recursion
  /\ Len(upstream) = max_recursion + 1

\* C2: with the verbosity flag off, the final answer of the buffered loop is
\* the concatenation of the assistant turns in round order, each once.
C2_EachTurnOnce ==
  (pc = "done" /\ response.kind = "final" /\ ~SHOW_VCP_OUTPUT) =>
     response.content = replies

\* C3: every failure of a plugin invocation is sent, as a result message of
\* the conversation, in a follow-up upstream call, in both modes.
C3_FailureFedBack ==
  pc = "done" => \A f \in Range(tool_failures) : SentInFollowUp(f)

\* C4: when a follow-up upstream call of the buffered loop fails, the
\* response still carries the assistant content and the tool results
\* accumulated in the earlier rounds.
C4_PartialReturned ==
  (pc = "done" /\ ~is_streaming /\ Len(upstream) >= 2 /\ response.kind = "error") =>
     (PiecesOf(current_messages) \ {UserPrompt}) \subseteq Range(response.content)

\* C5: a streaming request opens at most one follow-up upstream call.
C5_OneFollowUp ==
  is_streaming => Len(upstream) <= 2

\* C7: a failure of a sandbox script is sent upstream in a follow-up call,
\* in both modes.
C7_CodeFailureFedBack ==
  pc = "done" => \A f \in Range(code_failures) : SentInFollowUp(f)


\* C27: a streaming response that has run to its end (generate_stream has
\* emitted and returned) holds exactly one [DONE] event, and that event is
\* the last one emitted, on every path of generate_stream.
C27_OneDoneAtEnd ==
  (is_streaming /\ pc = "done" /\ out # <<>>) =>
    /\ Cardinality({i \in 1..Len(out) : out[i] = DONE}) = 1
    /\ out[Len(out)] = DONE

\* ------------------------------------------------------------------------
\* SpecExec: one plugin subprocess under asyncio.wait_for, as spawned by
\* execute_plugin and by _execute_static_plugin_command
\* ------------------------------------------------------------------------
Callers == {"execute_plugin", "_execute_static_plugin_command"}
PluginScripts == [stdout : StdoutKinds, returncode : {0, 1}]

ExecInit ==
  /\ x_caller \in Callers
  /\ x_script \in PluginScripts
  /\ x_shell_execs \in BOOLEAN
  /\ x_pc = "idle"
  /\ x_shell = "none"
  /\ x_child = "none"
  /\ x_written = "none"
  /\ x_expired = FALSE
  /\ x_result = <<>>
  /\ ParseIdle
  /\ SandboxIdle
  /\ ChatIdle
  /\ StaticIdle
  /\ LoadIdle
  /\ OthersIdle

\* asyncio.create_subprocess_shell(command, shell=True): /bin/sh -c command.
\* `process` is the shell; the command is the shell itself when the shell
\* execs it, and a child of the shell otherwise.
create_subprocess_shell ==
  /\ x_pc = "idle"
  /\ x_pc' = "communicate"
  /\ x_shell' = "running"
  /\ x_child' = IF x_shell_execs THEN "none" ELSE "running"
  /\ UNCHANGED <<x_caller, x_script, x_shell_execs, x_written, x_expired,
                 x_result, parseVars, sandboxVars, chatVars, staticVars, loadVars, otherVars>>

\* the process that runs the command
CommandRuns ==
  \/ x_child = "running"
  \/ x_child = "none" /\ x_shell = "running"

\* the command writes the beginning of its output
CommandWrites ==
  /\ CommandRuns
  /\ x_script.stdout # ""
  /\ x_written = "none"
  /\ x_written' = "partial"
  /\ UNCHANGED <<x_caller, x_script, x_shell_execs, x_pc, x_shell, x_child,
                 x_expired, x_result, parseVars, sandboxVars, chatVars, staticVars, loadVars, otherVars>>

\* the command writes the rest of its output and exits
CommandExits ==
  /\ CommandRuns
  /\ x_written' = "all"
  /\ IF x_child = "running"
     THEN x_child' = "exited" /\ UNCHANGED x_shell
     ELSE x_shell' = "exited" /\ UNCHANGED x_child
  /\ UNCHANGED <<x_caller, x_script, x_shell_execs, x_pc, x_expired,
                 x_result, parseVars, sandboxVars, chatVars, staticVars, loadVars, otherVars>>

\* the shell has waited for its child and exits with the child's code
ShellExits ==
  /\ x_shell = "running"
  /\ x_child = "exited"
  /\ x_shell' = "exited"
  /\ UNCHANGED <<x_caller, x_script, x_shell_execs, x_pc, x_child, x_written,
                 x_expired, x_result, parseVars, sandboxVars, chatVars, staticVars, loadVars, otherVars>>

\* process.communicate() returns once `process` has exited; the caller turns
\* the output and the exit code into its result
communicate ==
  /\ x_pc = "communicate"
  /\ x_shell = "exited"
  /\ x_pc' = "ended"
  /\ x_result' = IF x_caller = "execute_plugin"
                 THEN <<InterpretOutput(x_script.stdout, x_script.returncode)>>
                 ELSE <<InterpretStatic(x_script.stdout, x_script.returncode)>>
  /\ UNCHANGED <<x_caller, x_script, x_shell_execs, x_shell, x_child,
                 x_written, x_expired, parseVars, sandboxVars, chatVars, staticVars, loadVars, otherVars>>

\* asyncio.wait_for gives up: communicate() is cancelled, what it has read
\* is dropped, and "except asyncio.TimeoutError" is entered
wait_for_TimeoutError ==
  /\ x_pc = "communicate"
  /\ x_pc' = "except_timeout"
  /\ x_expired' = TRUE
  /\ UNCHANGED <<x_caller, x_script, x_shell_execs, x_shell, x_child,
                 x_written, x_result, parseVars, sandboxVars, chatVars, staticVars, loadVars, otherVars>>

TimedOut == Outcome(TRUE, "execution timed out", "")
LookupFailed == Outcome(TRUE, "ProcessLookupError", "")

\* "process.kill(); raise TimeoutError(...)".  kill() signals `process`, the
\* shell, and nothing else.  When the shell has exited in the meantime,
\* kill() either does nothing or raises ProcessLookupError, and that
\* exception leaves the handler in place of TimeoutError.
process_kill ==
  /\ x_pc = "except_timeout"
  /\ x_pc' = "ended"
  /\ \/ /\ x_shell = "running"
        /\ x_shell' = "killed"
        /\ x_result' = <<TimedOut>>
     \/ /\ x_shell = "exited"
        /\ UNCHANGED x_shell
        /\ x_result' \in {<<TimedOut>>, <<LookupFailed>>}
  /\ UNCHANGED <<x_caller, x_script, x_shell_execs, x_child, x_written,
                 x_expired, parseVars, sandboxVars, chatVars, staticVars, loadVars, otherVars>>

ExecNext ==
  \/ create_subprocess_shell
  \/ CommandWrites
  \/ CommandExits
  \/ ShellExits
  \/ communicate
  \/ wait_for_TimeoutError
  \/ process_kill

SpecExec == ExecInit /\ [][ExecNext]_vars

Envelopes == {"success_envelope", "error_envelope"}

\* C11: when the subprocess of a synchronous or static plugin exceeds its
\* timeout, the call ends in a timeout failure and no process the call
\* spawned is still running once the call has ended.
C11_TimeoutKillsProcess ==
  (x_pc = "ended" /\ x_expired) =>
    /\ x_result = <<TimedOut>>
    /\ x_shell # "running"
    /\ x_child # "running"

\* the call of execute_plugin has ended and its process was not timed out
ExecutePluginDone ==
  x_pc = "ended" /\ ~x_expired /\ x_caller = "execute_plugin"

\* C12: when the standard output of a synchronous plugin is a result
\* envelope with status success or error, execute_plugin returns that
\* envelope, with that status, whatever the exit code of the process.
C12_EnvelopeWins ==
  (ExecutePluginDone /\ x_script.stdout \in Envelopes) =>
    x_result = <<Outcome(FALSE, StatusOf(x_script.stdout), x_script.stdout)>>

\* an envelope has been returned for a process that exited with a non-zero code
C12_Witness ==
  /\ ExecutePluginDone
  /\ x_script.stdout \in Envelopes
  /\ x_script.returncode # 0
  /\ x_result # <<>>
  /\ ~x_result[1].raised

\* C13: when the process exits with code zero and its standard output is
\* anything but a valid envelope, execute_plugin returns a success whose
\* result is the raw standard output.
C13_RawSuccess ==
  (ExecutePluginDone /\ x_script.returncode = 0
     /\ x_script.stdout \notin Envelopes) =>
    x_result = <<Outcome(FALSE, "success", x_script.stdout)>>


\* ------------------------------------------------------------------------
\* SpecStatic: initialize_static_plugins and the scheduled refreshes
\* ------------------------------------------------------------------------
StaticInit ==
  /\ static_placeholder_values = NoValues
  /\ st_plugins \in {StaticPlugins(c, f) : c \in CronKinds, f \in CronKinds}
  /\ st_i = 1
  /\ st_pc = "loop"
  /\ st_jobs = [n \in StaticNames |-> "none"]
  /\ st_running = FALSE
  /\ st_invoked = [n \in StaticNames |-> 0]
  /\ st_failed = {}
  /\ st_good = NoValues
  /\ st_last = <<>>
  /\ ParseIdle
  /\ SandboxIdle
  /\ ChatIdle
  /\ ExecIdle
  /\ LoadIdle
  /\ OthersIdle

\* "if not self.scheduler.running: self.scheduler.start()" once the loop is over
LoopExit(next) ==
  IF next = 0
  THEN st_pc' = "raised" /\ UNCHANGED <<st_i, st_running>>
  ELSE IF next > Len(st_plugins)
       THEN st_pc' = "done" /\ st_running' = TRUE /\ st_i' = next
       ELSE st_i' = next /\ UNCHANGED <<st_pc, st_running>>

\* one pass of the loop of initialize_static_plugins: the refresh of the
\* plugin, then add_job when the manifest has a refreshIntervalCron
initialize_static_plugins ==
  /\ st_pc = "loop"
  /\ LET plugin == st_plugins[st_i]
         cron == plugin.refreshIntervalCron
     IN IF plugin.pluginType # "static"
        THEN /\ LoopExit(st_i + 1)
             /\ UNCHANGED <<static_placeholder_values, st_jobs, st_invoked,
                            st_failed, st_good, st_last>>
        ELSE \E res \in CommandResults :
               /\ static_placeholder_values' =
                    update_static_plugin_value(static_placeholder_values, plugin, res)
               /\ st_good' = GoodAfter(st_good, plugin, res)
               /\ st_last' = <<[plugin |-> plugin, res |-> res,
                                before |-> static_placeholder_values]>>
               /\ st_invoked' = [st_invoked EXCEPT ![plugin.name] = @ + 1]
               /\ st_jobs' = IF cron # "none" /\ ~add_job_raises(cron)
                             THEN [st_jobs EXCEPT ![plugin.name] = parse_cron(cron)]
                             ELSE st_jobs
               /\ st_failed' = IF res.raised \/ (cron # "none" /\ add_job_raises(cron))
                               THEN st_failed \cup {plugin.name}
                               ELSE st_failed
               /\ LoopExit(IF cron = "none" THEN st_i + 1
                           ELSE AfterAddJob(st_i, add_job_raises(cron)))
  /\ UNCHANGED <<st_plugins, parseVars, sandboxVars, chatVars, execVars, loadVars, otherVars>>

\* a job of the scheduler fires: _update_static_plugin_value(plugin)
CronFires ==
  /\ st_running
  /\ \E k \in 1..Len(st_plugins) : \E res \in CommandResults :
       LET plugin == st_plugins[k]
       IN /\ plugin.name \in StaticNames
          /\ st_jobs[plugin.name] # "none"
          /\ static_placeholder_values' =
               update_static_plugin_value(static_placeholder_values, plugin, res)
          /\ st_good' = GoodAfter(st_good, plugin, res)
          /\ st_last' = <<[plugin |-> plugin, res |-> res,
                           before |-> static_placeholder_values]>>
  /\ UNCHANGED <<st_plugins, st_i, st_pc, st_jobs, st_running, st_invoked,
                 st_failed, parseVars, sandboxVars, chatVars, execVars, loadVars, otherVars>>

StaticNext == initialize_static_plugins \/ CronFires

SpecStatic == StaticInit /\ [][StaticNext]_vars

\* C14: a placeholder that holds the value of an earlier successful refresh
\* keeps that value through every failing or empty refresh that follows.
C14_LastGoodRetained ==
  \A ph \in AllPlaceholders :
    st_good[ph] # <<>> => static_placeholder_values[ph] = st_good[ph]

\* the latest refresh was of a plugin whose command failed
LastRefreshFailed == st_last # <<>> /\ st_last[1].res.raised

\* the latest refresh was of a plugin whose command wrote nothing
LastRefreshEmpty ==
  st_last # <<>> /\ ~st_last[1].res.raised /\ Strip(st_last[1].res.stdout) = <<>>

\* C15 (as stated): after a failing refresh, a placeholder of the plugin for
\* which no good value was ever stored holds the marker
\* "[<plugin name> data currently unavailable]".
C15_UnavailableOnFailure ==
  LastRefreshFailed =>
    \A ph \in PlaceholdersOf(st_last[1].plugin) :
      st_good[ph] = <<>> =>
        static_placeholder_values[ph] = Unavailable(st_last[1].plugin.name)

\* C15 (amended): after a failing refresh, a placeholder of the plugin for
\* which no good value was ever stored holds the marker
\* "[Error updating <plugin name>: <error>...]", unless it held the
\* "currently unavailable" marker before, which it keeps; that marker is set
\* by a refresh without output on a placeholder that has no entry.
C15_ErrorMarkerOnFailure ==
  /\ LastRefreshFailed =>
       \A ph \in PlaceholdersOf(st_last[1].plugin) :
         st_good[ph] = <<>> =>
           static_placeholder_values[ph] =
             IF st_last[1].before[ph] = Unavailable(st_last[1].plugin.name)
             THEN Unavailable(st_last[1].plugin.name)
             ELSE ErrorMarker(st_last[1].plugin.name, st_last[1].res.msg)
  /\ LastRefreshEmpty =>
       \A ph \in PlaceholdersOf(st_last[1].plugin) :
         st_last[1].before[ph] = <<>> =>
           static_placeholder_values[ph] = Unavailable(st_last[1].plugin.name)

\* a failing refresh has put the error marker on a placeholder without entry
C15_Witness ==
  /\ LastRefreshFailed
  /\ \E ph \in PlaceholdersOf(st_last[1].plugin) :
       /\ st_good[ph] = <<>>
       /\ st_last[1].before[ph] = <<>>
       /\ static_placeholder_values[ph] =
            ErrorMarker(st_last[1].plugin.name, st_last[1].res.msg)

\* the static plugins of the registry the loop has gone past
StaticsBefore(i) ==
  {k \in 1..Len(st_plugins) : k < i /\ st_plugins[k].pluginType = "static"}

\* C16: initialize_static_plugins runs every static plugin once and
\* schedules each one that has a refreshIntervalCron the scheduler accepts;
\* a command or a scheduling that fails for one plugin stops neither the
\* run nor the scheduling of the others, and the scheduler is started.
C16_EveryStaticInitialized ==
  /\ st_pc # "raised"
  /\ \A k \in StaticsBefore(st_i) :
       /\ st_invoked[st_plugins[k].name] = 1
       /\ st_plugins[k].refreshIntervalCron \in {"valid", "short"}
            => st_jobs[st_plugins[k].name] # "none"
  /\ st_pc = "done" =>
       /\ st_running
       /\ StaticsBefore(st_i) =
            {k \in 1..Len(st_plugins) : st_plugins[k].pluginType = "static"}

\* the first static plugin failed in its command and in its scheduling, and
\* the last one was run and scheduled all the same
C16_Witness ==
  /\ st_pc = "done"
  /\ "Clock" \in st_failed
  /\ st_plugins[1].refreshIntervalCron = "unparsable"
  /\ static_placeholder_values["{{Time}}"] # <<>>
  /\ StartsWithError(static_placeholder_values["{{Time}}"])
  /\ st_invoked["Feed"] = 1
  /\ st_jobs["Feed"] = "five_fields"


\* C28: once _update_static_plugin_value has completed for a static plugin,
\* by success, empty output or failure, every placeholder the plugin
\* declares holds a non-empty value in the cache, so that
\* get_placeholder_value finds it.
C28_DeclaredKeysFilled ==
  st_last # <<>> =>
    \A ph \in PlaceholdersOf(st_last[1].plugin) :
      static_placeholder_values[ph] # <<>>

\* a refresh whose command wrote nothing has filled a key that had no entry
C28_Witness ==
  /\ LastRefreshEmpty
  /\ \E ph \in PlaceholdersOf(st_last[1].plugin) :
       /\ st_last[1].before[ph] = <<>>
       /\ static_placeholder_values[ph] = Unavailable(st_last[1].plugin.name)

\* ------------------------------------------------------------------------
\* SpecLoad: load_plugins over a plugin directory, and list_plugins
\* ------------------------------------------------------------------------
Directories == UNION {[1..m -> FolderKinds] : m \in 1..MaxFolders}

LoadInit ==
  /\ ld_dir \in Directories
  /\ ld_i = 1
  /\ ld_pc = "scan"
  /\ ld_plugins = NoRegistry
  /\ ld_listing = <<>>
  /\ ParseIdle
  /\ SandboxIdle
  /\ ChatIdle
  /\ ExecIdle
  /\ StaticIdle
  /\ OthersIdle

\* one pass of the loop of load_plugins; after the last folder the scan is
\* over.  An exception no except clause handles would leave load_plugins.
load_plugins ==
  /\ ld_pc = "scan"
  /\ ld_i <= Len(ld_dir)
  /\ LET folder == ld_dir[ld_i]
         exc == FolderException(folder)
     IN IF exc # "none" /\ exc \notin Handled
        THEN ld_pc' = "raised" /\ UNCHANGED <<ld_i, ld_plugins>>
        ELSE /\ ld_plugins' = LoadFolder(ld_plugins, ld_i, folder)
             /\ ld_i' = ld_i + 1
             /\ ld_pc' = IF ld_i = Len(ld_dir) THEN "done" ELSE "scan"
  /\ UNCHANGED <<ld_dir, ld_listing, parseVars, sandboxVars, chatVars,
                 execVars, staticVars, otherVars>>

\* GET /admin_api/plugins
admin_list_plugins ==
  /\ ld_listing = <<>>
  /\ ld_listing' = list_plugins(ld_dir)
  /\ ld_listing' # <<>>
  /\ UNCHANGED <<ld_dir, ld_i, ld_pc, ld_plugins, parseVars, sandboxVars,
                 chatVars, execVars, staticVars, otherVars>>

LoadNext == load_plugins \/ admin_list_plugins

SpecLoad == LoadInit /\ [][LoadNext]_vars

\* the folders load_plugins has gone past
Scanned == 1..(ld_i - 1)

\* a folder with a well-formed plugin-manifest.json
WellFormed(i) ==
  /\ ld_dir[i].file = "json"
  /\ ld_dir[i].parses
  /\ {"name", "pluginType", "entryPoint"} \subseteq ld_dir[i].keys

\* the folder the registry holds a manifest of
RegisteredFrom(i) ==
  \E n \in DOMAIN ld_plugins : ld_plugins[n].basePath = i

\* C17: of two well-formed manifests with one name in a scan, the first is
\* registered and stays as it was stored (its basePath and its plugin-scoped
\* configuration), and the second never appears in the registry.
C17_FirstKept ==
  \A i \in Scanned : \A j \in Scanned :
    (i < j /\ WellFormed(i) /\ WellFormed(j)
       /\ ld_dir[i].name = ld_dir[j].name
       /\ \A h \in 1..(i - 1) : ~(WellFormed(h) /\ ld_dir[h].name = ld_dir[i].name))
    => /\ ld_dir[i].name \in DOMAIN ld_plugins
       /\ ld_plugins[ld_dir[i].name].basePath = i
       /\ ld_plugins[ld_dir[i].name].env = (IF ld_dir[i].env THEN <<i>> ELSE <<>>)
       /\ ~RegisteredFrom(j)

\* the scan is over two well-formed folders of one name whose .env differ
C17_Witness ==
  /\ ld_pc = "done"
  /\ \E i \in Scanned : \E j \in Scanned :
       /\ i < j /\ WellFormed(i) /\ WellFormed(j)
       /\ ld_dir[i].name = ld_dir[j].name
       /\ ld_dir[i].env /\ ~ld_dir[j].env
       /\ ld_plugins[ld_dir[i].name].basePath = i

\* a folder whose well-formed manifest is the first of its name
FirstOfName(i) ==
  /\ WellFormed(i)
  /\ \A h \in 1..(i - 1) : ~(WellFormed(h) /\ ld_dir[h].name = ld_dir[i].name)

\* C18: a folder whose manifest is malformed JSON, lacks name, pluginType or
\* entryPoint, or repeats a registered name is never registered; every other
\* folder with a well-formed manifest is registered; load_plugins never raises.
C18_BadFolderSkipped ==
  /\ ld_pc # "raised"
  /\ \A i \in Scanned :
       IF FirstOfName(i)
       THEN /\ ld_dir[i].name \in DOMAIN ld_plugins
            /\ ld_plugins[ld_dir[i].name].basePath = i
       ELSE ~RegisteredFrom(i)

\* the scan is over a malformed manifest, a manifest without a required
\* field, and a well-formed manifest registered after them
C18_Witness ==
  /\ ld_pc = "done"
  /\ \E i \in Scanned : \E j \in Scanned : \E k \in Scanned :
       /\ i < k /\ j < k
       /\ ld_dir[i].file = "json" /\ ~ld_dir[i].parses
       /\ ld_dir[j].file = "json" /\ ld_dir[j].parses
       /\ ld_dir[j].keys # {"name", "pluginType", "entryPoint"}
       /\ FirstOfName(k) /\ RegisteredFrom(k)

\* a folder with the blocked manifest alone, well-formed
BlockedOnly(i) ==
  /\ ld_dir[i].file = "block"
  /\ ld_dir[i].parses
  /\ {"name", "pluginType", "entryPoint"} \subseteq ld_dir[i].keys

\* C19 (as stated): a folder with the blocked manifest alone is registered
\* with enabled = false, a folder with the normal manifest with enabled = true.
C19_DisabledRegistered ==
  ld_pc = "done" =>
    \A i \in Scanned :
      /\ BlockedOnly(i) => RegisteredFrom(i)
      /\ FirstOfName(i) => "enabled" \in ld_plugins[ld_dir[i].name].keys

\* C19 (amended): load_plugins skips a folder with the blocked manifest
\* alone and stores no enabled field with the manifests it registers; the
\* listing of the admin API reports the blocked manifest with
\* enabled = false and the normal manifest with enabled = true.
C19_DisabledSkippedAndListed ==
  /\ \A i \in Scanned : ld_dir[i].file = "block" => ~RegisteredFrom(i)
  /\ \A n \in DOMAIN ld_plugins : "enabled" \notin ld_plugins[n].keys
  /\ ld_listing # <<>> =>
       \A i \in 1..Len(ld_dir) :
         /\ BlockedOnly(i) =>
              \E k \in 1..Len(ld_listing) :
                ld_listing[k] = [name |-> ld_dir[i].name, enabled |-> FALSE, folder |-> i]
         /\ WellFormed(i) =>
              \E k \in 1..Len(ld_listing) :
                ld_listing[k] = [name |-> ld_dir[i].name, enabled |-> TRUE, folder |-> i]

\* the scan is over a folder with the blocked manifest alone, which is listed
\* as disabled and not registered, and a folder with the normal manifest,
\* which is registered
C19_Witness ==
  /\ ld_pc = "done"
  /\ ld_listing # <<>>
  /\ \E i \in Scanned : \E j \in Scanned :
       /\ BlockedOnly(i) /\ ~RegisteredFrom(i)
       /\ ld_dir[i].name \notin DOMAIN ld_plugins
       /\ \E k \in 1..Len(ld_listing) :
            ld_listing[k].folder = i /\ ~ld_listing[k].enabled
       /\ FirstOfName(j) /\ RegisteredFrom(j)


\* ------------------------------------------------------------------------
\* SpecRound: requests written in the tool-call markup the system prompt
\* prescribes, and read back by parse_multiple_vcp_requests
\* ------------------------------------------------------------------------
ArgKeys == <<"msg", "n">>

\* argument values and tool names without the end marker and the quote glyphs
ArgValues == {<<"hi">>, <<" ", "hi">>, <<"a", ",", "\n", "b">>}
ToolNames == {<<"Echo">>, <<"Sci", "Calc">>}

ArgDicts ==
  UNION {[S -> ArgValues] : S \in SUBSET {ArgKeys[k] : k \in 1..Len(ArgKeys)}}

RoundRequests == [tool_name : ToolNames, args : ArgDicts]

\* the pairs of the arguments, one per key
RECURSIVE ArgPairs(_, _)
ArgPairs(args, k) ==
  IF k > Len(ArgKeys) THEN <<>>
  ELSE (IF ArgKeys[k] \in DOMAIN args
        THEN <<Pair(ArgKeys[k], args[ArgKeys[k]])>>
        ELSE <<>>) \o ArgPairs(args, k + 1)

\* one request in the markup of the prompt:
\* start marker, tool_name:<open>name<close>, key:<open>value<close>..., end marker
RenderRequest(request) ==
  <<START, Pair("tool_name", request.tool_name)>>
    \o ArgPairs(request.args, 1) \o <<END>>

RECURSIVE Render(_)
Render(requests) ==
  IF requests = <<>> THEN <<>>
  ELSE RenderRequest(Head(requests)) \o Render(Tail(requests))

RoundInit ==
  /\ rt_requests \in UNION {[1..m -> RoundRequests] : m \in 0..MaxRequests}
  /\ rt_pc = "init"
  /\ rt_markup = <<>>
  /\ rt_parsed = <<>>
  /\ ParseIdle
  /\ SandboxIdle
  /\ ChatIdle
  /\ ExecIdle
  /\ StaticIdle
  /\ LoadIdle
  /\ ConfigIdle
  /\ ExpandIdle
  /\ SharedIdle
  /\ ToolRoundIdle
  /\ TasksIdle

\* the requests are written out in the markup
WriteMarkup ==
  /\ rt_pc = "init"
  /\ rt_markup' = Render(rt_requests)
  /\ rt_pc' = "rendered"
  /\ UNCHANGED <<rt_requests, rt_parsed, parseVars, sandboxVars, chatVars,
                 execVars, staticVars, loadVars, configVars, expandVars,
                 sharedVars,
                 toolRoundVars,
                 taskVars>>

\* parse_multiple_vcp_requests reads the markup
ReadMarkup ==
  /\ rt_pc = "rendered"
  /\ rt_parsed' = parse_multiple_vcp_requests(rt_markup)
  /\ rt_pc' = "parsed"
  /\ UNCHANGED <<rt_requests, rt_markup, parseVars, sandboxVars, chatVars,
                 execVars, staticVars, loadVars, configVars, expandVars,
                 sharedVars,
                 toolRoundVars,
                 taskVars>>

RoundNext == WriteMarkup \/ ReadMarkup

SpecRound == RoundInit /\ [][RoundNext]_vars

\* C21: parsing the markup of a list of requests gives the list back, for
\* every tool name and argument value without end marker and quote glyphs,
\* values with leading or trailing whitespace included.
C21_RoundTrip ==
  rt_pc = "parsed" => rt_parsed = rt_requests


\* ------------------------------------------------------------------------
\* SpecConfig: PluginManager._get_plugin_config
\* ------------------------------------------------------------------------
\* the strings found in .env files and in the environment
RawValues == {"42", " 7 ", "abc", "true", "True", "false", "yes", ""}

\* int(raw_value): <<n>>, or <<>> for ValueError
IntOf(raw) ==
  CASE raw = "42" -> <<42>>
    [] raw = " 7 " -> <<7>>
    [] OTHER -> <<>>

\* str(raw_value).lower()
Lower(raw) == IF raw = "True" THEN "true" ELSE raw

\* the value of the global environment before the plugin's own
RawValue_GlobalFirst(plugin_specific_env, global_env, key) ==
  IF key \in DOMAIN global_env THEN <<global_env[key]>>
  ELSE IF key \in DOMAIN plugin_specific_env THEN <<plugin_specific_env[key]>>
  ELSE <<>>

\* raw_value: plugin_specific_env.get(key), then global_env.get(key);
\* <<>> for None
RawValue(plugin_specific_env, global_env, key) ==
  IF key \in DOMAIN plugin_specific_env THEN <<plugin_specific_env[key]>>
  ELSE IF key \in DOMAIN global_env THEN <<global_env[key]>>
  ELSE <<>>

\* the type conversion: <<value>>, or <<>> when int() raises ValueError,
\* which the except clause catches
Convert(expected_type, raw) ==
  IF expected_type = "integer"
  THEN (IF IntOf(raw) = <<>> THEN <<>> ELSE <<IntVal(IntOf(raw)[1])>>)
  ELSE IF expected_type = "boolean" THEN <<BoolVal(Lower(raw) = "true")>>
  ELSE <<StrVal(raw)>>

\* plugin_specific_env.get('DebugMode') or global_env.get('DebugMode', 'false')
DebugRaw(plugin_specific_env, global_env) ==
  IF "DebugMode" \in DOMAIN plugin_specific_env
       /\ plugin_specific_env["DebugMode"] # ""
  THEN plugin_specific_env["DebugMode"]
  ELSE IF "DebugMode" \in DOMAIN global_env THEN global_env["DebugMode"]
  ELSE "false"

\* _get_plugin_config
get_plugin_config(plugin_manifest, global_env) ==
  LET schema == plugin_manifest.configSchema
      env == plugin_manifest.pluginSpecificEnvConfig
      Got(key) == IF RawValue(env, global_env, key) = <<>> THEN <<>>
                  ELSE Convert(schema[key], RawValue(env, global_env, key)[1])
      kept == {key \in DOMAIN schema : Got(key) # <<>>}
  IN [key \in kept \cup {"DebugMode"} |->
        IF key = "DebugMode"
        THEN BoolVal(Lower(DebugRaw(env, global_env)) = "true")
        ELSE Got(key)[1]]

SchemaTypes == {"integer", "boolean", "string"}
EnvKeys == {"Port", "DebugMode"}
Dicts(keys, values) == UNION {[S -> values] : S \in SUBSET keys}

ConfigInit ==
  /\ cf_manifest \in [configSchema : Dicts({"Port"}, SchemaTypes),
                      pluginSpecificEnvConfig : Dicts(EnvKeys, RawValues)]
  /\ cf_environ \in Dicts(EnvKeys, RawValues)
  /\ cf_pc = "init"
  /\ cf_config = NoConfig
  /\ ParseIdle
  /\ SandboxIdle
  /\ ChatIdle
  /\ ExecIdle
  /\ StaticIdle
  /\ LoadIdle
  /\ RoundIdle
  /\ ExpandIdle
  /\ SharedIdle
  /\ ToolRoundIdle
  /\ TasksIdle

ResolveConfig ==
  /\ cf_pc = "init"
  /\ cf_config' = get_plugin_config(cf_manifest, cf_environ)
  /\ cf_pc' = "returned"
  /\ UNCHANGED <<cf_manifest, cf_environ, parseVars, sandboxVars, chatVars,
                 execVars, staticVars, loadVars, roundVars, expandVars,
                 sharedVars,
                 toolRoundVars,
                 taskVars>>

ConfigNext == ResolveConfig

SpecConfig == ConfigInit /\ [][ConfigNext]_vars

\* the value the claim expects for a declared key: the plugin's own, else
\* the process-wide one
Chosen(key) ==
  IF key \in DOMAIN cf_manifest.pluginSpecificEnvConfig
  THEN <<cf_manifest.pluginSpecificEnvConfig[key]>>
  ELSE IF key \in DOMAIN cf_environ THEN <<cf_environ[key]>>
  ELSE <<>>

\* the string stands for a value of the type
Coercible(type, raw) ==
  CASE type = "integer" -> raw \in {"42", " 7 "}
    [] type = "boolean" -> raw \in {"true", "True", "false"}
    [] OTHER -> TRUE

Expected(type, raw) ==
  CASE type = "integer" -> IntVal(IF raw = "42" THEN 42 ELSE 7)
    [] type = "boolean" -> BoolVal(raw \in {"true", "True"})
    [] OTHER -> StrVal(raw)

\* C22: a key declared in configSchema resolves to the plugin-scoped value
\* when there is one and to the process-wide value otherwise; with neither
\* the key is absent; DebugMode is always there as a boolean, false when
\* set nowhere.
C22_OverrideThenGlobal ==
  cf_pc = "returned" =>
    /\ \A key \in DOMAIN cf_manifest.configSchema :
         IF Chosen(key) = <<>> THEN key \notin DOMAIN cf_config
         ELSE Coercible(cf_manifest.configSchema[key], Chosen(key)[1]) =>
                /\ key \in DOMAIN cf_config
                /\ cf_config[key] =
                     Expected(cf_manifest.configSchema[key], Chosen(key)[1])
    /\ "DebugMode" \in DOMAIN cf_config
    /\ cf_config["DebugMode"].t = "bool"
    /\ ("DebugMode" \notin DOMAIN cf_manifest.pluginSpecificEnvConfig
          /\ "DebugMode" \notin DOMAIN cf_environ)
         => cf_config["DebugMode"] = BoolVal(FALSE)

\* a declared key with both values has resolved to the plugin's own, which
\* differs from the process-wide one
C22_Witness ==
  /\ cf_pc = "returned"
  /\ "Port" \in DOMAIN cf_manifest.configSchema
  /\ cf_manifest.configSchema["Port"] = "integer"
  /\ "Port" \in DOMAIN cf_manifest.pluginSpecificEnvConfig
  /\ "Port" \in DOMAIN cf_environ
  /\ cf_manifest.pluginSpecificEnvConfig["Port"] = " 7 "
  /\ cf_environ["Port"] = "42"
  /\ cf_config["Port"] = IntVal(7)
  /\ cf_config["DebugMode"] = BoolVal(FALSE)

\* C23: a configured value that cannot be coerced to the declared type
\* (integer or boolean) leaves the key out of the result, without raising;
\* the key never shows as zero or false.
C23_UncoercibleOmitted ==
  cf_pc = "returned" =>
    \A key \in DOMAIN cf_manifest.configSchema :
      (Chosen(key) # <<>>
         /\ ~Coercible(cf_manifest.configSchema[key], Chosen(key)[1]))
      => key \notin DOMAIN cf_config


\* ------------------------------------------------------------------------
\* SpecExpand: replace_common_variables on the placeholder tokens of a text
\* ------------------------------------------------------------------------
PlaceholderTokens ==
  {"{{Date}}", "{{VarUser}}", "{{EmojiPrompt}}", "{{VCPWeatherInfo}}",
   "{{VCPToolsAPI}}", "{{VCPEcho}}", "{{Port}}", "{{Image_Key}}"}

\* _generate_tools_api_prompt: the prompt, or the empty string
generate_tools_api_prompt(use_mcp) ==
  IF ~use_mcp THEN <<>> ELSE <<"## Available Tools">>

\* get_placeholder_value: the cached value or the "not found" marker
get_placeholder_value(cached) ==
  IF cached THEN <<"sunny">> ELSE <<"[Placeholder {{VCPWeatherInfo}} not found]">>

\* the words that stand in place of one token after replace_common_variables;
\* a token no replace() touches stays as it is
Expansion(token, env) ==
  CASE token = "{{Date}}" -> <<"2026-11-05">>
    [] token = "{{VarUser}}" ->
         (IF env.VarUser = "unset" THEN <<token>>
          ELSE IF env.VarUser = "" THEN <<"unconfigured VarUser">>
          ELSE <<env.VarUser>>)
    [] token = "{{EmojiPrompt}}" ->
         (IF env.EmojiPrompt THEN <<"emoji prompt">> ELSE <<token>>)
    [] token = "{{VCPWeatherInfo}}" -> get_placeholder_value(env.weather)
    [] token = "{{VCPToolsAPI}}" ->
         generate_tools_api_prompt(env.USE_MCP_CODE_EXECUTION)
    [] token = "{{VCPEcho}}" ->
         (IF ~env.echo_described THEN <<token>>
          ELSE IF env.USE_MCP_CODE_EXECUTION THEN <<"# Tool available: Echo">>
          ELSE <<"- Echo (Echo) - ...">>)
    [] token = "{{Port}}" -> (IF env.PORT THEN <<"8000">> ELSE <<token>>)
    [] token = "{{Image_Key}}" ->
         (IF env.Image_Key THEN <<"key">> ELSE <<token>>)
    [] OTHER -> <<token>>

replace_common_variables(text, env) ==
  [i \in 1..Len(text) |-> Expansion(text[i], env)]

ExpandInit ==
  /\ ex_text \in UNION {[1..m -> PlaceholderTokens] : m \in 1..MaxPrompt}
  /\ ex_env \in {ExpandEnv(v, e, w, m, d, p, k) :
                   v \in {"unset", "", "Ann"}, e \in BOOLEAN, w \in BOOLEAN,
                   m \in BOOLEAN, d \in BOOLEAN, p \in BOOLEAN, k \in BOOLEAN}
  /\ ex_pc = "init"
  /\ ex_out = <<>>
  /\ ParseIdle
  /\ SandboxIdle
  /\ ChatIdle
  /\ ExecIdle
  /\ StaticIdle
  /\ LoadIdle
  /\ RoundIdle
  /\ ConfigIdle
  /\ SharedIdle
  /\ ToolRoundIdle
  /\ TasksIdle

ExpandText ==
  /\ ex_pc = "init"
  /\ ex_out' = replace_common_variables(ex_text, ex_env)
  /\ ex_pc' = "done"
  /\ UNCHANGED <<ex_text, ex_env, parseVars, sandboxVars, chatVars, execVars,
                 staticVars, loadVars, roundVars, configVars,
                 sharedVars,
                 toolRoundVars,
                 taskVars>>

ExpandNext == ExpandText

SpecExpand == ExpandInit /\ [][ExpandNext]_vars

\* the value of the token is there to be put in
Available(token, env) ==
  CASE token = "{{Date}}" -> TRUE
    [] token = "{{VarUser}}" -> env.VarUser \notin {"unset", ""}
    [] token = "{{EmojiPrompt}}" -> env.EmojiPrompt
    [] token = "{{VCPWeatherInfo}}" -> env.weather
    [] token = "{{VCPToolsAPI}}" -> env.USE_MCP_CODE_EXECUTION
    [] token = "{{VCPEcho}}" -> env.echo_described
    [] token = "{{Port}}" -> env.PORT
    [] token = "{{Image_Key}}" -> env.Image_Key
    [] OTHER -> FALSE

\* C24: after replace_common_variables, a recognised token whose value is
\* not available is still there verbatim or has given way to a non-empty
\* marker; it is never replaced by the empty string.
C24_NeverDropped ==
  ex_pc = "done" =>
    \A i \in 1..Len(ex_text) :
      ~Available(ex_text[i], ex_env) => ex_out[i] # <<>>


\* ------------------------------------------------------------------------
\* SpecShared: concurrent chat requests beside load_plugins and the static
\* refresh, all on the one PluginManager
\* ------------------------------------------------------------------------
SharedPlugins == {"Echo", "Weather"}
WeatherKey == "{{VCPWeatherInfo}}"

\* a dict after the assignment d[key] = value
Assign(d, key, value) ==
  [k \in DOMAIN d \cup {key} |-> IF k = key THEN value ELSE d[k]]

\* the manifest table load_plugins builds from the folders it finds
TableOf(found) ==
  [n \in found |-> IF n = "Weather" THEN "static" ELSE "synchronous"]

\* self.plugins.setdefault(name): the looked-up manifest and the table after
LookupManifest_SetDefault(table, name) ==
  IF name \in DOMAIN table THEN <<table[name], table>>
  ELSE <<"None", Assign(table, name, "None")>>

\* self.plugins.get(name): the looked-up manifest and the table after
LookupManifest(table, name) ==
  IF name \in DOMAIN table THEN <<table[name], table>>
  ELSE <<"None", table>>

\* self.static_placeholder_values.get(key) or the marker, and the cache after
LookupPlaceholder(cache, key) ==
  IF key \in DOMAIN cache /\ cache[key] # "" THEN <<cache[key], cache>>
  ELSE <<"[Placeholder not found]", cache>>

SharedInit ==
  /\ sh_plugins = NoTable
  /\ sh_static = NoTable
  /\ sh_pc = [r \in ChatRequests |-> "received"]
  /\ sh_tool \in [ChatRequests -> {"Echo", "Ghost"}]
  /\ sh_seen = [r \in ChatRequests |-> <<>>]
  /\ ParseIdle
  /\ SandboxIdle
  /\ ChatIdle
  /\ ExecIdle
  /\ StaticIdle
  /\ LoadIdle
  /\ RoundIdle
  /\ ConfigIdle
  /\ ExpandIdle
  /\ ToolRoundIdle
  /\ TasksIdle

SharedFrame ==
  UNCHANGED <<parseVars, sandboxVars, chatVars, execVars, staticVars, loadVars,
              roundVars, configVars, expandVars,
                 toolRoundVars,
                 taskVars>>

\* load_plugins: both caches are cleared, then the table is rebuilt
SharedLoadPlugins ==
  /\ \E found \in SUBSET SharedPlugins : sh_plugins' = TableOf(found)
  /\ sh_static' = NoTable
  /\ UNCHANGED <<sh_pc, sh_tool, sh_seen>>
  /\ SharedFrame

\* _update_static_plugin_value on the scheduler's timer
SharedStaticRefresh ==
  /\ "Weather" \in DOMAIN sh_plugins
  /\ \E value \in {"sunny", "rain"} :
       sh_static' = Assign(sh_static, WeatherKey, value)
  /\ UNCHANGED <<sh_plugins, sh_pc, sh_tool, sh_seen>>
  /\ SharedFrame

\* a chat request expands the variables of its messages
RequestExpand(r) ==
  /\ sh_pc[r] = "received"
  /\ LET got == LookupPlaceholder(sh_static, WeatherKey)
     IN /\ sh_seen' = [sh_seen EXCEPT ![r] = Append(@, got[1])]
        /\ sh_static' = got[2]
  /\ sh_pc' = [sh_pc EXCEPT ![r] = "expanded"]
  /\ UNCHANGED <<sh_plugins, sh_tool>>
  /\ SharedFrame

\* a chat request runs its tool call through process_tool_call
RequestToolCall(r) ==
  /\ sh_pc[r] = "expanded"
  /\ LET got == LookupManifest(sh_plugins, sh_tool[r])
     IN /\ sh_seen' = [sh_seen EXCEPT ![r] = Append(@, got[1])]
        /\ sh_plugins' = got[2]
  /\ sh_pc' = [sh_pc EXCEPT ![r] = "answered"]
  /\ UNCHANGED <<sh_static, sh_tool>>
  /\ SharedFrame

SharedNext ==
  \/ SharedLoadPlugins
  \/ SharedStaticRefresh
  \/ \E r \in ChatRequests : RequestExpand(r)
  \/ \E r \in ChatRequests : RequestToolCall(r)

SpecShared == SharedInit /\ [][SharedNext]_vars

\* C25: a step of a chat request (variable expansion or tool call), however
\* it interleaves with the other requests, the loader and the refresh,
\* leaves the manifest table and the static-placeholder cache as they were.
C25_RequestsLeaveCaches ==
  [][sh_pc' # sh_pc => (sh_plugins' = sh_plugins /\ sh_static' = sh_static)]_vars

\* both requests have looked up what the caches do not hold, between writes
\* of the loader and the refresh
C25_Witness ==
  /\ \A r \in ChatRequests : sh_pc[r] = "answered"
  /\ sh_seen[1] = <<"[Placeholder not found]", "None">>
  /\ sh_seen[2] = <<"sunny", "synchronous">>
  /\ sh_tool[1] = "Ghost"


\* ------------------------------------------------------------------------
\* SpecToolRound: one round of the buffered tool loop, call by call
\* ------------------------------------------------------------------------
\* a reply holding one tool-call block per name, text between them
RECURSIVE CallsOf(_)
CallsOf(names) ==
  IF names = <<>> THEN <<>>
  ELSE IF Len(names) = 1 THEN Call(names[1])
  ELSE Call(Head(names)) \o <<TXT>> \o CallsOf(Tail(names))

RoundTexts ==
  {CallsOf(names) :
     names \in UNION {[1..n -> {"Echo", "Ghost", "Err"}] : n \in 1..MaxCalls}}

\* asyncio.gather over the requests: a call may start while others run
MayStart_Gather(running) == TRUE

\* "await plugin_manager.process_tool_call(...)" inside the for loop: the
\* loop takes the next request only when the awaited call is over
MayStart(running) == running = {}

ToolRoundInit ==
  /\ tr_text \in RoundTexts
  /\ tr_requests = <<>>
  /\ tr_next = 1
  /\ tr_running = {}
  /\ tr_log = <<>>
  /\ tr_results = <<>>
  /\ tr_pc = "reply"
  /\ tr_sent = <<>>
  /\ ParseIdle
  /\ SandboxIdle
  /\ ChatIdle
  /\ ExecIdle
  /\ StaticIdle
  /\ LoadIdle
  /\ RoundIdle
  /\ ConfigIdle
  /\ ExpandIdle
  /\ SharedIdle
  /\ TasksIdle

ToolRoundFrame ==
  UNCHANGED <<parseVars, sandboxVars, chatVars, execVars, staticVars, loadVars,
              roundVars, configVars, expandVars, sharedVars,
                 taskVars>>

\* vcp_requests = parse_multiple_vcp_requests(current_ai_content)
ScanReply ==
  /\ tr_pc = "reply"
  /\ tr_requests' = parse_multiple_vcp_requests(tr_text)
  /\ tr_pc' = "loop"
  /\ UNCHANGED <<tr_text, tr_next, tr_running, tr_log, tr_results, tr_sent>>
  /\ ToolRoundFrame

\* the for loop takes the next request and calls process_tool_call
StartTool ==
  /\ tr_pc = "loop"
  /\ tr_next <= Len(tr_requests)
  /\ MayStart(tr_running)
  /\ tr_running' = tr_running \cup {tr_next}
  /\ tr_log' = Append(tr_log, <<"start", tr_next>>)
  /\ tr_next' = tr_next + 1
  /\ UNCHANGED <<tr_text, tr_requests, tr_results, tr_pc, tr_sent>>
  /\ ToolRoundFrame

\* process_tool_call returns or raises; its text is appended to tool_results
FinishTool ==
  /\ tr_pc = "loop"
  /\ \E i \in tr_running :
       LET tool_name == tr_requests[i].tool_name
           r == process_tool_call(Registry, tool_name)
       IN /\ tr_results' =
               Append(tr_results, IF r.raised THEN ToolError(tool_name, r.val)
                                  ELSE ToolResult(tool_name, r.val))
          /\ tr_log' = Append(tr_log, <<"end", i>>)
          /\ tr_running' = tr_running \ {i}
  /\ UNCHANGED <<tr_text, tr_requests, tr_next, tr_pc, tr_sent>>
  /\ ToolRoundFrame

\* combined_results joined and appended as the user message
SendResults ==
  /\ tr_pc = "loop"
  /\ tr_next > Len(tr_requests)
  /\ tr_running = {}
  /\ tr_sent' = tr_results
  /\ tr_pc' = "sent"
  /\ UNCHANGED <<tr_text, tr_requests, tr_next, tr_running, tr_log, tr_results>>
  /\ ToolRoundFrame

ToolRoundNext == ScanReply \/ StartTool \/ FinishTool \/ SendResults

SpecToolRound == ToolRoundInit /\ [][ToolRoundNext]_vars

\* C26: in one buffered round the tool calls run one at a time in the order
\* of their blocks in the text (call i starts only after call i-1 has
\* ended, by result or by exception), and the message sent upstream holds
\* their result texts in that order.
C26_OneAtATimeInOrder ==
  /\ Cardinality(tr_running) <= 1
  /\ \A k \in 1..Len(tr_log) :
       tr_log[k] = <<IF k % 2 = 1 THEN "start" ELSE "end", (k + 1) \div 2>>
  /\ tr_pc = "sent" =>
       /\ Len(tr_sent) = Len(tr_requests)
       /\ \A i \in 1..Len(tr_sent) : tr_sent[i].tool = tr_requests[i].tool_name

\* three calls, the first fails, the second succeeds, and the results went out
C26_Witness ==
  /\ tr_pc = "sent"
  /\ Len(tr_sent) = 3
  /\ tr_sent[1] = ToolError(<<"Ghost">>, "not found for tool call")
  /\ tr_sent[2].kind = "tool_result"
  /\ tr_sent[3].tool = <<"Err">>


\* ------------------------------------------------------------------------
\* SpecTasks: TaskManager, submit_task and cancel_task on the caller's
\* thread beside task_wrapper on a thread of the pool
\* ------------------------------------------------------------------------
\* "NONE" stands for a task id without a row
TasksInit ==
  /\ running_tasks = {}
  /\ tm_status \in [TaskIds -> {"PENDING", "NONE"}]
  /\ tm_message = [t \in TaskIds |-> ""]
  /\ tm_submit = [t \in TaskIds |-> "idle"]
  /\ tm_wrapper = [t \in TaskIds |-> "none"]
  /\ tm_cancelled = {}
  /\ ParseIdle
  /\ SandboxIdle
  /\ ChatIdle
  /\ ExecIdle
  /\ StaticIdle
  /\ LoadIdle
  /\ RoundIdle
  /\ ConfigIdle
  /\ ExpandIdle
  /\ SharedIdle
  /\ ToolRoundIdle

TasksFrame ==
  UNCHANGED <<parseVars, sandboxVars, chatVars, execVars, staticVars, loadVars,
              roundVars, configVars, expandVars, sharedVars, toolRoundVars>>

\* submit_task up to "future = self.executor.submit(task_wrapper)": the
\* wrapper is handed to the pool
SubmitToExecutor(t) ==
  /\ tm_submit[t] = "idle"
  /\ tm_submit' = [tm_submit EXCEPT ![t] = "submitted"]
  /\ tm_wrapper' = [tm_wrapper EXCEPT ![t] = "queued"]
  /\ UNCHANGED <<running_tasks, tm_status, tm_message, tm_cancelled>>
  /\ TasksFrame

\* "self.running_tasks[task_id] = future", the next statement of submit_task
StoreFuture(t) ==
  /\ tm_submit[t] = "submitted"
  /\ running_tasks' = running_tasks \cup {t}
  /\ tm_submit' = [tm_submit EXCEPT ![t] = "stored"]
  /\ UNCHANGED <<tm_status, tm_message, tm_wrapper, tm_cancelled>>
  /\ TasksFrame

\* task_wrapper on a worker thread: the task is fetched and set IN_PROGRESS,
\* or is not found and the wrapper goes to its finally clause
WrapperStart(t) ==
  /\ tm_wrapper[t] = "queued"
  /\ IF tm_status[t] = "NONE"
     THEN /\ tm_wrapper' = [tm_wrapper EXCEPT ![t] = "finally"]
          /\ UNCHANGED tm_status
     ELSE /\ tm_status' = [tm_status EXCEPT ![t] = "IN_PROGRESS"]
          /\ tm_wrapper' = [tm_wrapper EXCEPT ![t] = "executing"]
  /\ UNCHANGED <<running_tasks, tm_message, tm_submit, tm_cancelled>>
  /\ TasksFrame

\* task_func returns and the task is set COMPLETED, or it raises and the
\* except clause sets it FAILED with str(e)
WrapperRun(t) ==
  /\ tm_wrapper[t] = "executing"
  /\ \E raised \in BOOLEAN :
       IF raised
       THEN /\ tm_status' = [tm_status EXCEPT ![t] = "FAILED"]
            /\ tm_message' = [tm_message EXCEPT ![t] = "task_func raised"]
       ELSE /\ tm_status' = [tm_status EXCEPT ![t] = "COMPLETED"]
            /\ UNCHANGED tm_message
  /\ tm_wrapper' = [tm_wrapper EXCEPT ![t] = "finally"]
  /\ UNCHANGED <<running_tasks, tm_submit, tm_cancelled>>
  /\ TasksFrame

\* the finally clause: "if task_id in self.running_tasks: del ..."
WrapperFinally(t) ==
  /\ tm_wrapper[t] = "finally"
  /\ running_tasks' = running_tasks \ {t}
  /\ tm_wrapper' = [tm_wrapper EXCEPT ![t] = "finished"]
  /\ UNCHANGED <<tm_status, tm_message, tm_submit, tm_cancelled>>
  /\ TasksFrame

\* cancel_task: True when the id was in running_tasks and the task was
\* PENDING or IN_PROGRESS
cancel_task(t) ==
  /\ t \in running_tasks
  /\ running_tasks' = running_tasks \ {t}
  /\ IF tm_status[t] \in {"PENDING", "IN_PROGRESS"}
     THEN /\ tm_status' = [tm_status EXCEPT ![t] = "FAILED"]
          /\ tm_message' = [tm_message EXCEPT ![t] = "Task cancelled by user"]
          /\ tm_cancelled' = tm_cancelled \cup {t}
     ELSE UNCHANGED <<tm_status, tm_message, tm_cancelled>>
  /\ UNCHANGED <<tm_submit, tm_wrapper>>
  /\ TasksFrame

TasksNext ==
  \/ \E t \in TaskIds : SubmitToExecutor(t)
  \/ \E t \in TaskIds : StoreFuture(t)
  \/ \E t \in TaskIds : WrapperStart(t)
  \/ \E t \in TaskIds : WrapperRun(t)
  \/ \E t \in TaskIds : WrapperFinally(t)
  \/ \E t \in TaskIds : cancel_task(t)

SpecTasks == TasksInit /\ [][TasksNext]_vars

\* C29: under every interleaving of submit_task with the worker thread, a
\* task whose wrapper has finished is no longer in running_tasks.
C29_FinishedNotRunning ==
  \A t \in TaskIds :
    tm_wrapper[t] = "finished" => t \notin running_tasks

\* C30: once cancel_task has returned True for a task, its stored status
\* stays FAILED with the message 'Task cancelled by user'; the worker does
\* not set it to IN_PROGRESS or COMPLETED afterwards.
C30_CancelledStaysFailed ==
  \A t \in tm_cancelled :
    /\ tm_status[t] = "FAILED"
    /\ tm_message[t] = "Task cancelled by user"

====
